---- MODULE Spec2Model ----
(***************************************************************************)
(* EcoCache mobile app: the map screen's proximity loop                    *)
(* (src/app/map.jsx, src/app/bleService.jsx, the api module).              *)
(*                                                                         *)
(* One map-screen visit is a session.  A session's setup() is an async     *)
(* function: each action below is the code that runs between two awaits.   *)
(* The BleManager is a module-level singleton shared by all sessions.      *)
(*                                                                         *)
(* Numbers are fixed point with one fractional digit (tenths): the         *)
(* coordinate 1.0 is the integer 10.  Coordinates lie on a metre grid, so  *)
(* that getDistance is |dlat| + |dlng| rounded to whole metres, as geolib  *)
(* rounds its result to whole metres.                                      *)
(* Strings are tuples of one-character strings.                            *)
(***************************************************************************)
EXTENDS Integers, Sequences, FiniteSets, TLC

\* ------------------------------------------------------------------ bounds
MaxSessions == 2
MaxTrace == 5
MaxDirectory == 2
MaxEvents == 2
MaxStops == 2
MaxRenders == 2
MaxScans == 2
MaxCalls == 4
MaxAttempts == 3

\* --------------------------------------------------------- program constants
NearbyThreshold == 100

Sessions == 1..MaxSessions

\* A value that may be absent (null, undefined, NaN) is a sequence of length
\* at most one: None when absent, Some(x) otherwise.
None == <<>>
Some(x) == <<x>>
Val(o) == o[1]
NaN == None

\* mapState.nearbyLocation: the initial {}, undefined (no beacon), or a
\* reference to one of the records of the list.
EmptyObject == [kind |-> "{}", index |-> 0]
UndefinedRef == [kind |-> "undefined", index |-> 0]
Ref(i) == [kind |-> "ref", index |-> i]

Abs(x) == IF x < 0 THEN -x ELSE x

\* ------------------------------------------------------------------ strings
Digits == {"0", "1", "2", "3", "4", "5", "6", "7", "8", "9"}

DigitVal(c) ==
  CASE c = "0" -> 0 [] c = "1" -> 1 [] c = "2" -> 2 [] c = "3" -> 3
    [] c = "4" -> 4 [] c = "5" -> 5 [] c = "6" -> 6 [] c = "7" -> 7
    [] c = "8" -> 8 [] c = "9" -> 9

\* String.prototype.split(","): the fields between the commas.
RECURSIVE SplitFrom(_, _, _)
SplitFrom(str, i, cur) ==
  IF i > Len(str) THEN <<cur>>
  ELSE IF str[i] = "," THEN <<cur>> \o SplitFrom(str, i + 1, <<>>)
  ELSE SplitFrom(str, i + 1, Append(cur, str[i]))

split(str) == SplitFrom(str, 1, <<>>)

\* String.prototype.trim(): drop the leading and trailing blanks.
RECURSIVE TrimLeft(_)
TrimLeft(str) ==
  IF str # <<>> /\ Head(str) = " " THEN TrimLeft(Tail(str)) ELSE str

RECURSIVE TrimRight(_)
TrimRight(str) ==
  IF str # <<>> /\ str[Len(str)] = " "
  THEN TrimRight(SubSeq(str, 1, Len(str) - 1)) ELSE str

trim(str) == TrimRight(TrimLeft(str))

\* The length of the longest prefix of str, from position i, made of digits.
RECURSIVE DigitRun(_, _)
DigitRun(str, i) ==
  IF i <= Len(str) /\ str[i] \in Digits THEN 1 + DigitRun(str, i + 1) ELSE 0

RECURSIVE DigitsValue(_, _, _)
DigitsValue(str, i, n) ==
  IF n = 0 THEN 0
  ELSE DigitsValue(str, i, n - 1) * 10 + DigitVal(str[i + n - 1])

\* A stricter conversion than the one the code calls: the whole string must
\* be the number, as Number() requires.
parseFloat_strict(arg) ==
  IF arg = None THEN NaN
  ELSE
    LET str == TrimLeft(Val(arg))
        neg == str # <<>> /\ str[1] = "-"
        start == IF str # <<>> /\ str[1] \in {"-", "+"} THEN 2 ELSE 1
        nInt == DigitRun(str, start)
        dot == start + nInt
        hasDot == dot <= Len(str) /\ str[dot] = "."
        nFrac == IF hasDot THEN DigitRun(str, dot + 1) ELSE 0
        intVal == DigitsValue(str, start, nInt)
        fracVal == IF nFrac > 0 THEN DigitVal(str[dot + 1]) ELSE 0
        mag == intVal * 10 + fracVal
        end == IF hasDot THEN dot + nFrac ELSE dot - 1
    IN IF (nInt = 0 /\ nFrac = 0) \/ end < Len(str) THEN NaN
       ELSE IF neg THEN Some(-mag) ELSE Some(mag)

\* parseFloat: skips leading blanks, reads an optional sign, the digits and an
\* optional fraction, and ignores whatever follows; NaN when no digit was
\* read or the argument is undefined (None).  The value is in tenths; fraction
\* digits after the first are below the model's resolution.
parseFloat(arg) ==
  IF arg = None THEN NaN
  ELSE
    LET str == TrimLeft(Val(arg))
        neg == str # <<>> /\ str[1] = "-"
        start == IF str # <<>> /\ str[1] \in {"-", "+"} THEN 2 ELSE 1
        nInt == DigitRun(str, start)
        dot == start + nInt
        hasDot == dot <= Len(str) /\ str[dot] = "."
        nFrac == IF hasDot THEN DigitRun(str, dot + 1) ELSE 0
        intVal == DigitsValue(str, start, nInt)
        fracVal == IF nFrac > 0 THEN DigitVal(str[dot + 1]) ELSE 0
        mag == intVal * 10 + fracVal
    IN IF nInt = 0 /\ nFrac = 0 THEN NaN
       ELSE IF neg THEN Some(-mag) ELSE Some(mag)

isNaN(x) == x = NaN


\* --------------------------------------------------------------- environment
\* Beacon records as the backend returns them (GET /beacons/).
Beacon(id, loc) == [beacon_id |-> id, location |-> loc]

Loc_0_0 == <<"0", ",", " ", "0">>
Loc_200_0 == <<"2", "0", "0", ",", "0">>
Loc_bad_data == <<"b", "a", "d", ",", "d", "a", "t", "a">>
Loc_1_2 == <<"1", ".", "0", ",", " ", "2", ".", "0">>
Loc_nocomma == <<"1", "5", "0">>
Loc_trailing == <<"1", ".", "5", "x", ",", " ", "-", "2">>
Loc_three == <<" ", "7", " ", ",", "8", ",", "9">>
Loc_nolat == <<",", "5">>
Loc_empty == <<>>

\* A record whose location is null: the field holds no string at all.
NullLocation == <<"null">>

RemoteDirectories ==
  { <<>>,
    <<Beacon(1, Loc_0_0), Beacon(2, Loc_bad_data), Beacon(3, Loc_200_0)>> }

ProbeDirectories ==
  RemoteDirectories \cup
  { <<Beacon(1, Loc_0_0)>>,
    <<Beacon(1, Loc_1_2), Beacon(2, Loc_bad_data)>>,
    <<Beacon(1, Loc_200_0), Beacon(2, Loc_nocomma), Beacon(3, Loc_0_0)>> }

Coord(lat, lng) == [latitude |-> lat, longitude |-> lng]

\* Position fixes delivered by the location watch (tenths of a metre).
Positions == { Coord(1000, 0), Coord(3010, 0) }
ProbePositions ==
  { Coord(900, 0), Coord(950, 0), Coord(1000, 0), Coord(1004, 0),
    Coord(1005, 0), Coord(1500, 0), Coord(3010, 0) }

\* Signal strengths a scan callback may carry.
RssiValues == { None, Some(-60), Some(-90) }

Name_DECO == <<"D", "E", "C", "O", "3", "8", "0", "1">>
Name_Prefixed == <<"x">> \o Name_DECO \o <<"-", "7">>
Name_Other == <<"D", "E", "C", "O", "3", "8", "0">>
DeviceNames == { None, Some(Name_DECO), Some(Name_Prefixed), Some(Name_Other) }

\* --------------------------------------------------------------------- state
VARIABLES
  manager,              \* bleService.jsx: the module-level BleManager
  pc,                   \* per session: where setup() is suspended
  unmounted,            \* per session: the effect cleanup has run
  locationSubscription, \* per session: the watch handle ("null", "active", "removed")
  locations,            \* per session: updatedLocations = mapState.locations
  userLocation,         \* per session: mapState.userLocation
  nearbyLocation,       \* per session: mapState.nearbyLocation (a reference)
  rssi,                 \* per session: the rssi state
  alertShownRef,        \* per session: alertShownRef.current
  steps,                \* per session: what setup has done so far, in order
  blePermission,        \* per session: outcome of requestBLEPermissions
  trace,                \* probe: nearest distance seen at each location update
  firings,              \* probe: how many times the scan prompt appeared
  scanObs,              \* bleService observed: platform, callbacks and their effects
  call,                 \* one evaluation of a pure function: fn, arg, out
  webview,              \* webview.jsx: the BeaconWebView screen
  qr,                   \* QRcodeScanner.jsx: the ScanScreen
  ACCESS_TOKEN,         \* api.js: the cached access token
  requests,             \* the HTTP requests sent, in order
  login,                \* login.jsx: the LoginScreen
  signup                \* signup.jsx: the SignUpScreen

vars ==
  << manager, pc, unmounted, locationSubscription, locations, userLocation,
     nearbyLocation, rssi, alertShownRef, steps, blePermission, trace, firings,
     scanObs, call, webview, qr, ACCESS_TOKEN, requests, login, signup >>

mapVars == << locations, userLocation, nearbyLocation, alertShownRef >>
probeVars == << trace, firings >>
otherVars == << scanObs, call, webview >>
appVars == << qr, ACCESS_TOKEN, requests, login, signup >>

DefaultUserLocation == Coord(-275, 1531)

\* Nothing observed of the scanner yet, no function evaluated, and the
\* BeaconWebView screen not shown.
NoScanObs == [platform |-> "android", log |-> <<>>, stopped |-> <<>>]
NoCall == [fn |-> "none", arg |-> None, out |-> None]
NoWebView ==
  [shown |-> FALSE, url |-> None, beaconId |-> <<>>, deps |-> None,
   discovered |-> FALSE, beacon |-> None, pending |-> {}, discoverCalls |-> 0,
   settled |-> None, alerts |-> <<>>, renders |-> 0]
NoDistance == None

\* ------------------------------------------------------------ pure functions
\* geolib getDistance on the metre grid, rounded to whole metres (Math.round).
getDistance(a, b) ==
  (Abs(a.latitude - b.latitude) + Abs(a.longitude - b.longitude) + 5) \div 10

\* annotate with the threshold excluded (metres < 100).
annotate_strict(user, location) ==
  LET metres == getDistance(user, location.coordinates)
  IN [location EXCEPT !.distance =
        Some([metres |-> metres, nearby |-> metres < NearbyThreshold])]

\* The .map() callback of calculateDistance: it writes the distance into the
\* record itself and returns the same record.
annotate(user, location) ==
  LET metres == getDistance(user, location.coordinates)
  IN [location EXCEPT !.distance =
        Some([metres |-> metres, nearby |-> metres <= NearbyThreshold])]

\* The comparator handed to Array.prototype.sort.
compare(a, b) == Val(a.distance).metres - Val(b.distance).metres

\* An insertion that puts an element before its equals (an unstable sort).
RECURSIVE InsertUnstable(_, _, _)
InsertUnstable(sorted, i, recs) ==
  IF sorted = <<>> THEN <<i>>
  ELSE IF compare(recs[i], recs[Head(sorted)]) <= 0 THEN <<i>> \o sorted
  ELSE <<Head(sorted)>> \o InsertUnstable(Tail(sorted), i, recs)

\* Array.prototype.sort is stable: an element goes after every element that
\* does not compare greater.  Sorts the indices of recs.
RECURSIVE InsertStable(_, _, _)
InsertStable(sorted, i, recs) ==
  IF sorted = <<>> THEN <<i>>
  ELSE IF compare(recs[i], recs[Head(sorted)]) < 0 THEN <<i>> \o sorted
  ELSE <<Head(sorted)>> \o InsertStable(Tail(sorted), i, recs)

RECURSIVE SortPrefix(_, _)
SortPrefix(recs, n) ==
  IF n = 0 THEN <<>> ELSE InsertStable(SortPrefix(recs, n - 1), n, recs)

sort(recs) == SortPrefix(recs, Len(recs))

\* The first record of the list taken for the nearest, with no sort.
calculateDistance_unsorted(user, locs) ==
  LET annotated == [i \in 1..Len(locs) |-> annotate(user, locs[i])]
  IN [records |-> annotated,
      nearest |-> IF annotated = <<>> THEN UndefinedRef ELSE Ref(1)]

\* calculateDistance: annotates every record in place, sorts a copy of the
\* array and returns its first element (undefined for an empty list).
\* records: the list after the in-place writes; nearest: the returned record,
\* as its index in the list.
calculateDistance(user, locs) ==
  LET annotated == [i \in 1..Len(locs) |-> annotate(user, locs[i])]
      nearestLocations == sort(annotated)
  IN [records |-> annotated,
      nearest |-> IF nearestLocations = <<>> THEN UndefinedRef
                  ELSE Ref(Head(nearestLocations))]

\* One record of the directory: null when either coordinate fails to parse.
parseBeacon(b) ==
  LET parts == split(b.location)
      lat == Some(trim(parts[1]))
      lng == IF Len(parts) >= 2 THEN Some(trim(parts[2])) ELSE None
      latitude == parseFloat(lat)
      longitude == parseFloat(lng)
  IN IF isNaN(latitude) \/ isNaN(longitude) THEN None
     ELSE Some([beacon_id |-> b.beacon_id, location |-> b.location,
                coordinates |-> Coord(Val(latitude), Val(longitude)),
                distance |-> NoDistance])

\* .filter(Boolean)
RECURSIVE filterBoolean(_)
filterBoolean(seq) ==
  IF seq = <<>> THEN <<>>
  ELSE IF Head(seq) = None THEN filterBoolean(Tail(seq))
  ELSE <<Val(Head(seq))>> \o filterBoolean(Tail(seq))

updatedLocations(remoteBeacons) ==
  filterBoolean([i \in 1..Len(remoteBeacons) |-> parseBeacon(remoteBeacons[i])])

\* fetchWithAuth: a network error rejects, a non-2xx response throws, and a
\* 2xx response gives the parsed body.
Responses ==
  { [kind |-> "network_error"], [kind |-> "response", ok |-> FALSE] } \cup
  { [kind |-> "response", ok |-> TRUE, body |-> d] : d \in RemoteDirectories }

fetchWithAuth(res) ==
  IF res.kind = "network_error" THEN [threw |-> TRUE]
  ELSE IF ~res.ok THEN [threw |-> TRUE]
  ELSE [threw |-> FALSE, value |-> res.body]

\* The .map() callback starts with b.location.split(","): a location that is
\* not a string has no split method, and the call is a TypeError.
mapThrows(remoteBeacons) ==
  \E i \in 1..Len(remoteBeacons) : remoteBeacons[i].location = NullLocation

\* The directory load of setup(): getBeaconLocations(), then the parse.
loadDirectory(res) ==
  LET r == fetchWithAuth(res)
  IN IF r.threw THEN [threw |-> TRUE, error |-> "fetch"]
     ELSE IF mapThrows(r.value) THEN [threw |-> TRUE, error |-> "TypeError"]
     ELSE [threw |-> FALSE, error |-> "none", value |-> updatedLocations(r.value)]

\* startBLEScan: a destroyed manager cannot scan again (its operations end in
\* the BluetoothManagerDestroyed error, which the listener logs).
startBLEScan(m, s) ==
  IF m.destroyed THEN m ELSE [m EXCEPT !.listener = s]

\* stopBLEScan: stopDeviceScan, then destroy.
stopBLEScan(m) == [destroyed |-> TRUE, listener |-> 0]

\* The record mapState.nearbyLocation refers to; the distance it shows is the
\* one last written into that record.
NearbyRecord(s) ==
  IF nearbyLocation[s].kind = "ref"
  THEN Some(locations[s][nearbyLocation[s].index]) ELSE None

\* The prompt shown for any nearest beacon, in range or not.
PromptVisible_anyBeacon(s) == NearbyRecord(s) # None

\* The render condition of the scan prompt:
\* mapState.nearbyLocation?.distance?.nearby
PromptVisible(s) ==
  /\ NearbyRecord(s) # None
  /\ Val(NearbyRecord(s)).distance # NoDistance
  /\ Val(Val(NearbyRecord(s)).distance).nearby

Mounted(s) == pc[s] # "idle" /\ ~unmounted[s]

\* The screens and the token cache before anything happened.
NoQR == [scanned |-> FALSE, seen |-> FALSE, timers |-> 0, log |-> <<>>]
NoLogin ==
  [pc |-> "idle", username |-> "", password |-> "", loading |-> FALSE,
   snackbar |-> "", navigation |-> "none", did |-> <<>>]
EmptyForm ==
  [username |-> "", email |-> "", password |-> "", birthDate |-> <<>>,
   underageConfirmed |-> FALSE, age |-> None]
NoSignUp ==
  [pc |-> "idle", form |-> EmptyForm, uploading |-> FALSE, snackbar |-> "",
   navigation |-> "none", attempts |-> 0, did |-> <<>>]

InitApp ==
  /\ qr = NoQR
  /\ ACCESS_TOKEN = None
  /\ requests = <<>>
  /\ login = NoLogin
  /\ signup = NoSignUp

\* ---------------------------------------------------------------------- init
Init ==
  /\ manager = [destroyed |-> FALSE, listener |-> 0]
  /\ pc = [s \in Sessions |-> "idle"]
  /\ unmounted = [s \in Sessions |-> FALSE]
  /\ locationSubscription = [s \in Sessions |-> "null"]
  /\ locations = [s \in Sessions |-> <<>>]
  /\ userLocation = [s \in Sessions |-> DefaultUserLocation]
  /\ nearbyLocation = [s \in Sessions |-> EmptyObject]
  /\ rssi = [s \in Sessions |-> None]
  /\ alertShownRef = [s \in Sessions |-> FALSE]
  /\ steps = [s \in Sessions |-> <<>>]
  /\ blePermission = [s \in Sessions |-> "unasked"]
  /\ trace = <<>>
  /\ firings = 0
  /\ scanObs = NoScanObs
  /\ call = NoCall
  /\ webview = NoWebView
  /\ InitApp

Did(s, what) == \E i \in 1..Len(steps[s]) : steps[s][i] = what

\* ------------------------------------------------------------------- actions
\* The screen is shown: the effect runs and setup() starts, up to its first
\* await.  The navigation model shows one map screen at a time.
\* A setup() that asks for the radio permissions without waiting for the
\* location permission.
Mount_parallel(s) ==
  /\ pc[s] = "idle"
  /\ \A t \in Sessions : t < s => pc[t] # "idle"
  /\ \A t \in Sessions : ~Mounted(t)
  /\ pc' = [pc EXCEPT ![s] = "awaitLocationPermission"]
  /\ steps' = [steps EXCEPT ![s] =
                 <<"requestForegroundPermissions", "requestBLEPermissions">>]
  /\ UNCHANGED << manager, unmounted, locationSubscription, mapVars, rssi,
                  blePermission, probeVars, otherVars, appVars >>

Mount(s) ==
  /\ pc[s] = "idle"
  /\ \A t \in Sessions : t < s => pc[t] # "idle"
  /\ \A t \in Sessions : ~Mounted(t)
  /\ pc' = [pc EXCEPT ![s] = "awaitLocationPermission"]
  /\ steps' = [steps EXCEPT ![s] = <<"requestForegroundPermissions">>]
  /\ UNCHANGED << manager, unmounted, locationSubscription, mapVars, rssi,
                  blePermission, probeVars, otherVars, appVars >>

\* setup() without the return after the permission alert.
LocationPermissionResolves_noReturn(s) ==
  /\ pc[s] = "awaitLocationPermission"
  /\ \E status \in {"granted", "denied"} :
       /\ steps' = [steps EXCEPT ![s] =
            @ \o (IF status # "granted"
                  THEN <<"location:denied", "alert:Permission denied">>
                  ELSE <<"location:granted">>) \o <<"requestBLEPermissions">>]
       /\ pc' = [pc EXCEPT ![s] = "awaitBLEPermissions"]
  /\ UNCHANGED << manager, unmounted, locationSubscription, mapVars, rssi,
                  blePermission, probeVars, otherVars, appVars >>

\* requestForegroundPermissionsAsync resolves.
LocationPermissionResolves(s) ==
  /\ pc[s] = "awaitLocationPermission"
  /\ \E status \in {"granted", "denied"} :
       IF status # "granted"
       THEN /\ steps' = [steps EXCEPT ![s] =
                           @ \o <<"location:denied", "alert:Permission denied">>]
            /\ pc' = [pc EXCEPT ![s] = "returned"]
       ELSE /\ steps' = [steps EXCEPT ![s] =
                           @ \o <<"location:granted", "requestBLEPermissions">>]
            /\ pc' = [pc EXCEPT ![s] = "awaitBLEPermissions"]
  /\ UNCHANGED << manager, unmounted, locationSubscription, mapVars, rssi,
                  blePermission, probeVars, otherVars, appVars >>

\* setup() giving up when the radio permission is denied.
BLEPermissionsResolve_abortOnDenied(s) ==
  /\ pc[s] = "awaitBLEPermissions"
  /\ \E outcome \in {"granted", "denied", "not_android"} :
       /\ blePermission' = [blePermission EXCEPT ![s] = outcome]
       /\ IF outcome = "denied"
          THEN /\ steps' = [steps EXCEPT ![s] = Append(@, "alert:Permission denied")]
               /\ pc' = [pc EXCEPT ![s] = "returned"]
          ELSE /\ steps' = [steps EXCEPT ![s] =
                    @ \o <<"alert:EcoCache Adventure Begins!", "getBeaconLocations">>]
               /\ pc' = [pc EXCEPT ![s] = "awaitBeaconLocations"]
  /\ UNCHANGED << manager, unmounted, locationSubscription, mapVars, rssi,
                  probeVars, otherVars, appVars >>

\* requestBLEPermissions resolves; its result is not looked at.  Then the
\* onboarding alert, and the directory fetch begins.
BLEPermissionsResolve(s) ==
  /\ pc[s] = "awaitBLEPermissions"
  /\ \E outcome \in {"granted", "denied", "not_android"} :
       blePermission' = [blePermission EXCEPT ![s] = outcome]
  /\ steps' = [steps EXCEPT ![s] =
                 @ \o <<"alert:EcoCache Adventure Begins!", "getBeaconLocations">>]
  /\ pc' = [pc EXCEPT ![s] = "awaitBeaconLocations"]
  /\ UNCHANGED << manager, unmounted, locationSubscription, mapVars, rssi,
                  probeVars, otherVars, appVars >>

\* getBeaconLocations settles.  On success: parse, setMapState, startBLEScan
\* and the call of watchPositionAsync, all in one turn.  On failure the
\* exception leaves setup(), whose promise nobody handles.
\* A setup() that asks for the directory again when the fetch failed (once).
BeaconLocationsSettleFrom_refetch(s, responses) ==
  /\ pc[s] = "awaitBeaconLocations"
  /\ \E res \in responses :
       LET r == loadDirectory(res)
           asked == Cardinality({ i \in 1..Len(steps[s]) :
                                    steps[s][i] = "getBeaconLocations" })
       IN IF r.threw
          THEN /\ pc' = [pc EXCEPT ![s] = IF asked < 2 THEN @ ELSE "rejected"]
               /\ steps' = [steps EXCEPT ![s] =
                              @ \o IF asked < 2
                                   THEN <<"fetch:failed", "getBeaconLocations">>
                                   ELSE <<"fetch:failed", "unhandledRejection">>]
               /\ UNCHANGED << manager, locations >>
          ELSE /\ locations' = [locations EXCEPT ![s] = r.value]
               /\ manager' = startBLEScan(manager, s)
               /\ steps' = [steps EXCEPT ![s] =
                              @ \o <<"fetch:ok", "setLocations", "startBLEScan",
                                     "watchPositionAsync">>]
               /\ pc' = [pc EXCEPT ![s] = "awaitWatchPosition"]
  /\ UNCHANGED << unmounted, locationSubscription, userLocation, nearbyLocation,
                  alertShownRef, rssi, blePermission, probeVars, otherVars, appVars >>

BeaconLocationsSettleFrom(s, responses) ==
  /\ pc[s] = "awaitBeaconLocations"
  /\ \E res \in responses :
       LET r == loadDirectory(res)
       IN IF r.threw
          THEN /\ pc' = [pc EXCEPT ![s] = "rejected"]
               /\ steps' = [steps EXCEPT ![s] =
                              @ \o IF r.error = "fetch"
                                   THEN <<"fetch:failed", "unhandledRejection">>
                                   ELSE <<"fetch:ok", "parse:failed",
                                          "unhandledRejection">>]
               /\ UNCHANGED << manager, locations >>
          ELSE /\ locations' = [locations EXCEPT ![s] = r.value]
               /\ manager' = startBLEScan(manager, s)
               /\ steps' = [steps EXCEPT ![s] =
                              @ \o <<"fetch:ok", "setLocations", "startBLEScan",
                                     "watchPositionAsync">>]
               /\ pc' = [pc EXCEPT ![s] = "awaitWatchPosition"]
  /\ UNCHANGED << unmounted, locationSubscription, userLocation, nearbyLocation,
                  alertShownRef, rssi, blePermission, probeVars, otherVars, appVars >>

BeaconLocationsSettle(s) == BeaconLocationsSettleFrom(s, Responses)

\* watchPositionAsync resolves: the handle is stored and setup() returns.
WatchPositionResolves(s) ==
  /\ pc[s] = "awaitWatchPosition"
  /\ locationSubscription' = [locationSubscription EXCEPT ![s] = "active"]
  /\ steps' = [steps EXCEPT ![s] = Append(@, "subscribed")]
  /\ pc' = [pc EXCEPT ![s] = "returned"]
  /\ UNCHANGED << manager, unmounted, mapVars, rssi, blePermission, probeVars, otherVars, appVars >>

\* The callback given to watchPositionAsync, for one position fix.
LocationCallback(s, pos) ==
  /\ locationSubscription[s] = "active"
  /\ LET nearby == calculateDistance(pos, locations[s])
         isNearby == /\ nearby.nearest.kind = "ref"
                     /\ Val(nearby.records[nearby.nearest.index].distance).nearby
     IN /\ locations' = [locations EXCEPT ![s] = nearby.records]
        /\ alertShownRef' =
             [alertShownRef EXCEPT ![s] = IF ~isNearby THEN FALSE ELSE @]
        /\ userLocation' = [userLocation EXCEPT ![s] = pos]
        /\ nearbyLocation' = [nearbyLocation EXCEPT ![s] = nearby.nearest]
  /\ UNCHANGED << manager, pc, unmounted, locationSubscription, rssi, steps,
                  blePermission, otherVars, appVars >>

LocationUpdate(s) ==
  \E pos \in Positions : LocationCallback(s, pos) /\ UNCHANGED probeVars

\* A comparison of the whole name instead of a search in it.
includes_exact(name, token) == name = token

\* includes(): token occurs somewhere in name.
includes(name, token) ==
  \E i \in 1..(Len(name) - Len(token) + 1) :
     SubSeq(name, i, i + Len(token) - 1) = token

\* What a scan callback does beyond logging, in the order it does it.
Vibrate(pattern) == [op |-> "Vibration.vibrate", arg |-> pattern]
OnMatch == [op |-> "onMatch", arg |-> <<>>]

\* The thresholds read with >= in place of >.
vibrateBySignalStrength_inclusive(platform, r) ==
  IF r = None THEN <<>>
  ELSE IF platform = "ios" THEN <<Vibrate(<<>>)>>
  ELSE IF Val(r) >= -75 THEN <<Vibrate(<<0, 600, 200, 600>>)>>
  ELSE IF Val(r) >= -80 THEN <<Vibrate(<<700>>)>>
  ELSE IF Val(r) >= -100 THEN <<Vibrate(<<300>>)>>
  ELSE <<>>

\* vibrateBySignalStrength: the Vibration.vibrate calls it makes; r is None
\* for a null or undefined rssi.
vibrateBySignalStrength(platform, r) ==
  IF r = None THEN <<>>
  ELSE IF platform = "ios" THEN <<Vibrate(<<>>)>>
  ELSE IF Val(r) > -75 THEN <<Vibrate(<<0, 600, 200, 600>>)>>
  ELSE IF Val(r) > -80 THEN <<Vibrate(<<700>>)>>
  ELSE IF Val(r) > -100 THEN <<Vibrate(<<300>>)>>
  ELSE <<>>

\* The listener startBLEScan gives to manager.startDeviceScan, called with
\* (error, device) and an onMatch: the calls it makes, in order.
listener(platform, error, device) ==
  IF error THEN <<>>
  ELSE IF device.name # None /\ includes(Val(device.name), Name_DECO)
  THEN vibrateBySignalStrength(platform, device.rssi) \o <<OnMatch>>
  ELSE <<>>

Calls(effects, what) ==
  Cardinality({ i \in 1..Len(effects) : effects[i] = what })

\* An onMatch that stores whatever the device carries.
ScanListener_storeAny(s, error, device) ==
  /\ manager.listener = s
  /\ IF Calls(listener("android", error, device), OnMatch) > 0
     THEN rssi' = [rssi EXCEPT ![s] = device.rssi]
     ELSE UNCHANGED rssi
  /\ UNCHANGED << manager, pc, unmounted, locationSubscription, mapVars, steps,
                  blePermission, probeVars, call, webview, appVars >>

\* The listener given to manager.startDeviceScan, for one scan callback, with
\* the onMatch of the session that started the scan.
ScanListener(s, error, device) ==
  /\ manager.listener = s
  /\ IF Calls(listener("android", error, device), OnMatch) > 0
     THEN rssi' = [rssi EXCEPT ![s] = IF device.rssi # None THEN device.rssi ELSE @]
     ELSE UNCHANGED rssi
  /\ UNCHANGED << manager, pc, unmounted, locationSubscription, mapVars, steps,
                  blePermission, probeVars, call, webview, appVars >>

ScanCallback(s) ==
  \E error \in BOOLEAN, name \in DeviceNames, r \in RssiValues :
     ScanListener(s, error, [name |-> name, rssi |-> r]) /\ UNCHANGED scanObs

\* The screen is left: the effect cleanup.
Unmount(s) ==
  /\ Mounted(s)
  /\ unmounted' = [unmounted EXCEPT ![s] = TRUE]
  /\ locationSubscription' =
       [locationSubscription EXCEPT ![s] = IF @ = "active" THEN "removed" ELSE @]
  /\ manager' = stopBLEScan(manager)
  /\ UNCHANGED << pc, mapVars, rssi, steps, blePermission, probeVars, otherVars, appVars >>

Next ==
  \E s \in Sessions :
    \/ Mount(s)
    \/ LocationPermissionResolves(s)
    \/ BLEPermissionsResolve(s)
    \/ BeaconLocationsSettle(s)
    \/ WatchPositionResolves(s)
    \/ LocationUpdate(s)
    \/ ScanCallback(s)
    \/ Unmount(s)

Spec == Init /\ [][Next]_vars

\* --------------------------------------------------- the proximity probe
\* One session, started where setup() awaits the directory, fed a bounded
\* sequence of position fixes from a finer set.  trace keeps the true
\* distance to the closest loaded beacon at each fix; firings counts the
\* renders in which the scan prompt appears after not being shown.
ProbeSession == 1

ProbeResponses ==
  { [kind |-> "response", ok |-> TRUE, body |-> d] : d \in ProbeDirectories }

MinDistance(user, locs) ==
  IF locs = <<>> THEN None
  ELSE Some(CHOOSE m \in { getDistance(user, locs[i].coordinates) : i \in 1..Len(locs) } :
         \A i \in 1..Len(locs) : m <= getDistance(user, locs[i].coordinates))

InitProbe ==
  /\ manager = [destroyed |-> FALSE, listener |-> 0]
  /\ pc = [s \in Sessions |-> IF s = ProbeSession THEN "awaitBeaconLocations" ELSE "idle"]
  /\ unmounted = [s \in Sessions |-> FALSE]
  /\ locationSubscription = [s \in Sessions |-> "null"]
  /\ locations = [s \in Sessions |-> <<>>]
  /\ userLocation = [s \in Sessions |-> DefaultUserLocation]
  /\ nearbyLocation = [s \in Sessions |-> EmptyObject]
  /\ rssi = [s \in Sessions |-> None]
  /\ alertShownRef = [s \in Sessions |-> FALSE]
  /\ steps = [s \in Sessions |->
               IF s = ProbeSession
               THEN <<"requestForegroundPermissions", "location:granted",
                      "requestBLEPermissions", "alert:EcoCache Adventure Begins!",
                      "getBeaconLocations">>
               ELSE <<>>]
  /\ blePermission = [s \in Sessions |-> IF s = ProbeSession THEN "granted" ELSE "unasked"]
  /\ trace = <<>>
  /\ firings = 0
  /\ scanObs = NoScanObs
  /\ call = NoCall
  /\ webview = NoWebView
  /\ InitApp

ProbeSettle ==
  BeaconLocationsSettleFrom(ProbeSession, ProbeResponses)

ProbeWatchResolves == WatchPositionResolves(ProbeSession)

TracedLocationUpdate ==
  /\ Len(trace) < MaxTrace
  /\ \E pos \in ProbePositions :
       /\ LocationCallback(ProbeSession, pos)
       /\ trace' = Append(trace, MinDistance(pos, locations[ProbeSession]))
       /\ firings' = firings +
            (IF ~PromptVisible(ProbeSession) /\ PromptVisible(ProbeSession)'
             THEN 1 ELSE 0)

NextProbe == ProbeSettle \/ ProbeWatchResolves \/ TracedLocationUpdate

SpecProbe == InitProbe /\ [][NextProbe]_vars

\* ------------------------------------------------------ the scanner, observed
\* One process, one BleManager; scanObs records every scan callback with the
\* calls its listener made, and the outcome of every stopBLEScan.
ScanRssi ==
  { None, Some(-101), Some(-100), Some(-99), Some(-80), Some(-79), Some(-75),
    Some(-74) }

\* An error callback carries no device.
NullDevice == [name |-> None, rssi |-> None]

ScanEvents ==
  { [error |-> TRUE, device |-> NullDevice] } \cup
  { [error |-> FALSE, device |-> [name |-> n, rssi |-> r]] :
      n \in DeviceNames, r \in ScanRssi }

\* manager.stopDeviceScan() and manager.destroy() on the module's manager: a
\* live manager stops and is destroyed; a destroyed manager is no longer
\* usable, and a call on it is either ignored or ends in an error, depending
\* on the platform and the library version.
stopOutcomes(m) == IF m.destroyed THEN { "ignored", "error" } ELSE { "stopped" }

InitScanner ==
  /\ manager = [destroyed |-> FALSE, listener |-> 0]
  /\ pc = [s \in Sessions |-> "idle"]
  /\ unmounted = [s \in Sessions |-> FALSE]
  /\ locationSubscription = [s \in Sessions |-> "null"]
  /\ locations = [s \in Sessions |-> <<>>]
  /\ userLocation = [s \in Sessions |-> DefaultUserLocation]
  /\ nearbyLocation = [s \in Sessions |-> EmptyObject]
  /\ rssi = [s \in Sessions |-> None]
  /\ alertShownRef = [s \in Sessions |-> FALSE]
  /\ steps = [s \in Sessions |-> <<>>]
  /\ blePermission = [s \in Sessions |-> "unasked"]
  /\ trace = <<>>
  /\ firings = 0
  /\ scanObs \in { [NoScanObs EXCEPT !.platform = p] : p \in {"android", "ios"} }
  /\ call = NoCall
  /\ webview = NoWebView
  /\ InitApp

ScannerStart ==
  /\ manager' = startBLEScan(manager, 1)
  /\ UNCHANGED << pc, unmounted, locationSubscription, mapVars, rssi, steps,
                  blePermission, probeVars, otherVars, appVars >>

ScannerCallback ==
  /\ Len(scanObs.log) < MaxEvents
  /\ \E ev \in ScanEvents :
       /\ ScanListener(1, ev.error, ev.device)
       /\ scanObs' = [scanObs EXCEPT !.log =
            Append(@, [error |-> ev.error, device |-> ev.device,
                       effects |-> listener(scanObs.platform, ev.error, ev.device)])]

ScannerStop ==
  /\ Len(scanObs.stopped) < MaxStops
  /\ \E outcome \in stopOutcomes(manager) :
       scanObs' = [scanObs EXCEPT !.stopped = Append(@, outcome)]
  /\ manager' = stopBLEScan(manager)
  /\ UNCHANGED << pc, unmounted, locationSubscription, mapVars, rssi, steps,
                  blePermission, probeVars, call, webview, appVars >>

NextScanner == ScannerStart \/ ScannerCallback \/ ScannerStop

SpecScanner == InitScanner /\ [][NextScanner]_vars

\* ------------------------------------------------------------ BeaconWebView
Str_prefix == <<"b", "e", "a", "c", "o", "n", ":", "/", "/">>
Url_plain == <<"7">>
Url_scheme == Str_prefix \o <<"7">>
Url_encoded ==
  <<"b", "e", "a", "c", "o", "n", "%", "3", "A", "%", "2", "F", "%", "2", "F", "7">>
Url_schemeOnly == Str_prefix

\* The url parameter of the route: undefined (None) or a string.
Urls ==
  { None, Some(<<>>), Some(Url_plain), Some(Url_scheme), Some(Url_encoded),
    Some(Url_schemeOnly) }

\* decodeURIComponent, for the escapes of ":" and "/".
RECURSIVE decodeURIComponent(_)
decodeURIComponent(str) ==
  IF str = <<>> THEN <<>>
  ELSE IF Len(str) >= 3 /\ SubSeq(str, 1, 3) = <<"%", "3", "A">>
  THEN <<":">> \o decodeURIComponent(SubSeq(str, 4, Len(str)))
  ELSE IF Len(str) >= 3 /\ SubSeq(str, 1, 3) = <<"%", "2", "F">>
  THEN <<"/">> \o decodeURIComponent(SubSeq(str, 4, Len(str)))
  ELSE <<Head(str)>> \o decodeURIComponent(Tail(str))

startsWith(str, prefix) ==
  Len(str) >= Len(prefix) /\ SubSeq(str, 1, Len(prefix)) = prefix

\* The beacon id a render computes from the url parameter.
beaconIdOf(url) ==
  LET decoded == decodeURIComponent(IF url = None THEN <<>> ELSE Val(url))
  IN IF startsWith(decoded, Str_prefix)
     THEN SubSeq(decoded, Len(Str_prefix) + 1, Len(decoded))
     ELSE decoded

\* An effect with no dependency list: it runs after every render.
depsChanged_noDeps(prev, next) == TRUE

\* useEffect(..., [beaconId]): the effect runs after the first render and
\* after a render whose beaconId differs from the previous one.
depsChanged(prev, next) == prev # Some(next)

\* One render of BeaconWebView followed by its effect.
Render(w) ==
  LET id == beaconIdOf(w.url)
      rendered == [w EXCEPT !.beaconId = id, !.renders = @ + 1]
  IN IF ~depsChanged(w.deps, id) THEN rendered
     ELSE IF id = <<>> \/ w.discovered
     THEN [rendered EXCEPT !.deps = Some(id)]
     ELSE [rendered EXCEPT !.deps = Some(id),
                           !.pending = @ \cup {"getBeacon", "discoverBeacon"},
                           !.discoverCalls = @ + 1]

Alert(title, points) == [title |-> title, points |-> points]

\* What the backend may answer to POST /discover/ and GET /beacons/{id}/.
PointsAwarded == { None, Some(-1), Some(0), Some(5) }
DiscoverResponses ==
  { [kind |-> k, ok |-> ok, body |-> [points_awarded |-> p]] :
      k \in {"response"}, ok \in BOOLEAN, p \in PointsAwarded } \cup
  { [kind |-> "network_error", ok |-> FALSE, body |-> [points_awarded |-> None]] }
BeaconResponses ==
  { [kind |-> "response", ok |-> ok, body |-> [name |-> "beacon"]] :
      ok \in BOOLEAN } \cup
  { [kind |-> "network_error", ok |-> FALSE, body |-> [name |-> "beacon"]] }

\* A then-handler that takes an award of zero for a first discovery.
discoverThen_zeroAwarded(w, res) ==
  [w EXCEPT !.alerts = Append(@, IF res.points_awarded # None /\ Val(res.points_awarded) >= 0
                                 THEN Alert("Success!", res.points_awarded)
                                 ELSE Alert("Already scanned", None)),
            !.discovered = TRUE]

\* .then of discoverBeacon: undefined > 0 is false.
discoverThen(w, res) ==
  [w EXCEPT !.alerts = Append(@, IF res.points_awarded # None /\ Val(res.points_awarded) > 0
                                 THEN Alert("Success!", res.points_awarded)
                                 ELSE Alert("Already scanned", None)),
            !.discovered = TRUE]

\* .catch of discoverBeacon
discoverCatch(w) == [w EXCEPT !.alerts = Append(@, Alert("Discovery failed", None))]

InitWebView ==
  /\ manager = [destroyed |-> FALSE, listener |-> 0]
  /\ pc = [s \in Sessions |-> "idle"]
  /\ unmounted = [s \in Sessions |-> FALSE]
  /\ locationSubscription = [s \in Sessions |-> "null"]
  /\ locations = [s \in Sessions |-> <<>>]
  /\ userLocation = [s \in Sessions |-> DefaultUserLocation]
  /\ nearbyLocation = [s \in Sessions |-> EmptyObject]
  /\ rssi = [s \in Sessions |-> None]
  /\ alertShownRef = [s \in Sessions |-> FALSE]
  /\ steps = [s \in Sessions |-> <<>>]
  /\ blePermission = [s \in Sessions |-> "unasked"]
  /\ trace = <<>>
  /\ firings = 0
  /\ scanObs = NoScanObs
  /\ call = NoCall
  /\ webview = NoWebView
  /\ InitApp

WebViewUnchanged ==
  UNCHANGED << manager, pc, unmounted, locationSubscription, mapVars, rssi, steps,
               blePermission, probeVars, scanObs, call,
               appVars >>

\* The result view is displayed with a url parameter: first render and effect.
WebViewOpen ==
  /\ ~webview.shown
  /\ \E url \in Urls :
       webview' = Render([NoWebView EXCEPT !.shown = TRUE, !.url = url])
  /\ WebViewUnchanged

\* A re-render for any reason (parent update, focus change).
WebViewRerender ==
  /\ webview.shown
  /\ webview.renders < MaxRenders
  /\ webview' = Render(webview)
  /\ WebViewUnchanged

\* getBeacon settles: setBeacon and a re-render, or the alert.
GetBeaconSettles ==
  /\ "getBeacon" \in webview.pending
  /\ \E res \in BeaconResponses :
       LET r == fetchWithAuth(res)
           w == [webview EXCEPT !.pending = @ \ {"getBeacon"}]
       IN webview' =
            IF r.threw
            THEN [w EXCEPT !.alerts = Append(@, Alert("Unable to load beacon info", None))]
            ELSE Render([w EXCEPT !.beacon = Some(r.value)])
  /\ WebViewUnchanged

\* discoverBeacon settles: the then-handler and a re-render, or the catch.
DiscoverSettles ==
  /\ "discoverBeacon" \in webview.pending
  /\ \E res \in DiscoverResponses :
       LET r == fetchWithAuth(res)
           w == [webview EXCEPT !.pending = @ \ {"discoverBeacon"},
                                !.settled = Some(res)]
       IN webview' =
            IF r.threw THEN discoverCatch(w) ELSE Render(discoverThen(w, r.value))
  /\ WebViewUnchanged

NextWebView == WebViewOpen \/ WebViewRerender \/ GetBeaconSettles \/ DiscoverSettles

SpecWebView == InitWebView /\ [][NextWebView]_vars

\* ---------------------------------------------------------------- ScanScreen
Str_http == <<"h", "t", "t", "p">>
Str_beaconPath == <<"/", "b", "e", "a", "c", "o", "n", "/">>

\* What a scanned QR code may hold.
Qr_https == <<"h", "t", "t", "p", "s", ":", "/", "/", "e", ".", "c", "o", "/", "b", "e", "a", "c", "o", "n", "/", "7">>
Qr_http == <<"h", "t", "t", "p", ":", "/", "/", "e", ".", "c", "o", "/", "b", "e", "a", "c", "o", "n", "/", "7">>
Qr_query == <<"h", "t", "t", "p", "s", ":", "/", "/", "e", ".", "c", "o", "/", "b", "e", "a", "c", "o", "n", "/", "7", "?", "x">>
Qr_emptyId == <<"h", "t", "t", "p", "s", ":", "/", "/", "e", ".", "c", "o", "/", "b", "e", "a", "c", "o", "n", "/">>
Qr_otherPath == <<"h", "t", "t", "p", "s", ":", "/", "/", "e", ".", "c", "o", "/", "o", "t", "h", "e", "r", "/", "7">>
Qr_text == <<"h", "e", "l", "l", "o">>
Qr_scheme == <<"b", "e", "a", "c", "o", "n", ":", "/", "/", "7">>
Qr_malformed == <<"h", "t", "t", "p", "b", "e", "a", "c", "o", "n", "7">>
Qr_httpx == <<"h", "t", "t", "p", "x", ":", "/", "/", "e", ".", "c", "o", "/", "b", "e", "a", "c", "o", "n", "/", "7">>

QrData ==
  { Qr_https, Qr_http, Qr_query, Qr_emptyId, Qr_otherPath, Qr_text, Qr_scheme,
    Qr_malformed, Qr_httpx }

\* The first position from i on where str has one of chars; Len(str) + 1
\* when there is none.
RECURSIVE IndexOf(_, _, _)
IndexOf(str, chars, i) ==
  IF i > Len(str) THEN Len(str) + 1
  ELSE IF str[i] \in chars THEN i
  ELSE IndexOf(str, chars, i + 1)

RECURSIVE SkipSlashes(_, _)
SkipSlashes(str, i) ==
  IF i <= Len(str) /\ str[i] = "/" THEN SkipSlashes(str, i + 1) ELSE i

\* new URL(data), as far as its pathname: a string with no scheme is not a
\* URL and the constructor throws, as it does for http(s) with no host; the
\* path ends at "?" or "#".
URL(data) ==
  LET colon == IndexOf(data, {":"}, 1)
      scheme == SubSeq(data, 1, colon - 1)
      special == scheme \in { Str_http, Str_http \o <<"s">> }
      hostStart == IF special THEN SkipSlashes(data, colon + 1)
                   ELSE IF startsWith(SubSeq(data, colon + 1, Len(data)), <<"/", "/">>)
                   THEN colon + 3 ELSE colon + 1
      pathStart == IF ~special /\ hostStart = colon + 1 THEN hostStart
                   ELSE IndexOf(data, {"/", "?", "#"}, hostStart)
      pathEnd == IndexOf(data, {"?", "#"}, pathStart) - 1
      path == SubSeq(data, pathStart, pathEnd)
  IN IF colon > Len(data) \/ colon = 1 THEN [threw |-> TRUE, pathname |-> <<>>]
     ELSE IF special /\ pathStart = hostStart THEN [threw |-> TRUE, pathname |-> <<>>]
     ELSE [threw |-> FALSE,
           pathname |-> IF special /\ path = <<>> THEN <<"/">> ELSE path]

\* The first position from i on where token occurs in str; Len(str) + 1
\* when it does not.
RECURSIVE Find(_, _, _)
Find(str, token, i) ==
  IF i + Len(token) - 1 > Len(str) THEN Len(str) + 1
  ELSE IF SubSeq(str, i, i + Len(token) - 1) = token THEN i
  ELSE Find(str, token, i + 1)

\* pathname.split("/beacon/")[1] of a pathname that starts with "/beacon/":
\* what lies between the first and the second "/beacon/".
splitBeacon1(pathname) ==
  LET from == Len(Str_beaconPath) + 1
  IN SubSeq(pathname, from, Find(pathname, Str_beaconPath, from) - 1)

RECURSIVE encodeURIComponent(_)
encodeURIComponent(str) ==
  IF str = <<>> THEN <<>>
  ELSE (CASE Head(str) = ":" -> <<"%", "3", "A">>
          [] Head(str) = "/" -> <<"%", "2", "F">>
          [] Head(str) = "?" -> <<"%", "3", "F">>
          [] Head(str) = "=" -> <<"%", "3", "D">>
          [] Head(str) = "%" -> <<"%", "2", "5">>
          [] OTHER -> <<Head(str)>>) \o encodeURIComponent(Tail(str))

\* What handleBarCodeScanned does with the scanned data once past its guard:
\* an alert or a router.push; pushed is the value given to the url parameter.
ShowAlert(title) == [kind |-> "alert", title |-> title, pushed |-> <<>>]
Push(param) == [kind |-> "push", title |-> "", pushed |-> param]

handleData(data) ==
  IF startsWith(data, Str_http)
  THEN LET u == URL(data)
       IN IF u.threw THEN ShowAlert("Discovery failed")
          ELSE IF startsWith(u.pathname, Str_beaconPath) /\ splitBeacon1(u.pathname) # <<>>
          THEN Push(encodeURIComponent(Str_prefix \o splitBeacon1(u.pathname)))
          ELSE ShowAlert("Invalid QR Code")
  ELSE ShowAlert("Invalid QR Code")

\* The url parameter the result view reads for a pushed route: the router
\* decodes the query string once.
useLocalSearchParams(pushed) == Some(decodeURIComponent(pushed))

InitQR ==
  /\ manager = [destroyed |-> FALSE, listener |-> 0]
  /\ pc = [s \in Sessions |-> "idle"]
  /\ unmounted = [s \in Sessions |-> FALSE]
  /\ locationSubscription = [s \in Sessions |-> "null"]
  /\ locations = [s \in Sessions |-> <<>>]
  /\ userLocation = [s \in Sessions |-> DefaultUserLocation]
  /\ nearbyLocation = [s \in Sessions |-> EmptyObject]
  /\ rssi = [s \in Sessions |-> None]
  /\ alertShownRef = [s \in Sessions |-> FALSE]
  /\ steps = [s \in Sessions |-> <<>>]
  /\ blePermission = [s \in Sessions |-> "unasked"]
  /\ trace = <<>>
  /\ firings = 0
  /\ scanObs = NoScanObs
  /\ call = NoCall
  /\ webview = NoWebView
  /\ InitApp

QRUnchanged ==
  UNCHANGED << manager, pc, unmounted, locationSubscription, mapVars, rssi, steps,
               blePermission, probeVars, otherVars, ACCESS_TOKEN, requests, login,
               signup >>

\* The camera delivers a scan event to the handler of the last render, whose
\* scanned is the value the state had at that render (qr.seen).
QRScanEvent ==
  /\ Len(qr.log) < MaxScans
  /\ \E data \in QrData :
       qr' = IF qr.seen
             THEN [qr EXCEPT !.log = Append(@, [data |-> data, ignored |-> TRUE,
                                                cooling |-> qr.timers > 0,
                                                outcome |-> ShowAlert("")])]
             ELSE [qr EXCEPT !.scanned = TRUE,
                             !.timers = @ + 1,
                             !.log = Append(@, [data |-> data, ignored |-> FALSE,
                                                cooling |-> qr.timers > 0,
                                                outcome |-> handleData(data)])]
  /\ QRUnchanged

\* React renders the screen with the current state.
QRRender ==
  /\ qr.seen # qr.scanned
  /\ qr' = [qr EXCEPT !.seen = qr.scanned]
  /\ QRUnchanged

\* A cooldown timer fires: setScanned(false).
QRTimerFires ==
  /\ qr.timers > 0
  /\ qr' = [qr EXCEPT !.timers = @ - 1, !.scanned = FALSE]
  /\ QRUnchanged

NextQR == QRScanEvent \/ QRRender \/ QRTimerFires

SpecQR == InitQR /\ [][NextQR]_vars

\* ------------------------------------------------------- signal functions
maxRSSI == -50
minRSSI == -100

\* Math.round of the fraction n / d (d > 0): the nearest integer, halves up.
MathRound(n, d) == (2 * n + d) \div (2 * d)

\* The unclamped variant: the interpolation without Math.max / Math.min.
getSignalStrengthPercent_unclamped(r) ==
  IF r = None THEN 0
  ELSE MathRound((Val(r) - minRSSI) * 100, maxRSSI - minRSSI)

\* getSignalStrengthPercent: 0 for null or undefined (None); otherwise the
\* interpolation (rssi - minRSSI) / (maxRSSI - minRSSI) * 100, clamped to
\* 0..100 and then rounded.
getSignalStrengthPercent(r) ==
  IF r = None THEN 0
  ELSE
    LET n == (Val(r) - minRSSI) * 100
        d == maxRSSI - minRSSI
    IN IF n > 100 * d THEN MathRound(100, 1)
       ELSE IF n < 0 THEN MathRound(0, 1)
       ELSE MathRound(n, d)

\* The variant with inclusive cut points.
getSignalLabel_inclusive(percent) ==
  IF percent >= 80 THEN "Excellent"
  ELSE IF percent >= 60 THEN "Good"
  ELSE IF percent >= 40 THEN "Fair"
  ELSE IF percent >= 20 THEN "Weak"
  ELSE "Very Weak"

getSignalLabel(percent) ==
  IF percent > 80 THEN "Excellent"
  ELSE IF percent > 60 THEN "Good"
  ELSE IF percent > 40 THEN "Fair"
  ELSE IF percent > 20 THEN "Weak"
  ELSE "Very Weak"

\* ------------------------------------------------------------ auth.js, api.js
\* The JSON body of an answer of the backend: each field is absent (None) or
\* present; username, password, email and dob hold a list whose first entry
\* is the message.
Body(username, password, email, dob, detail, access) ==
  [username |-> username, password |-> password, email |-> email, dob |-> dob,
   detail |-> detail, access |-> access]

ErrorBodies ==
  { Body(u, p, e, d, t, None) :
      u \in {None, Some("username taken")},
      p \in {None, Some("password too short")},
      e \in {None, Some("email invalid")},
      d \in {None, Some("dob invalid")},
      t \in {None, Some("not allowed")} }

Tokens == { "t1", "t2" }

\* A 2xx sign-in answer carries the access token, or no access field.
SuccessBodies ==
  { Body(None, None, None, None, None, a) : a \in {None} \cup { Some(t) : t \in Tokens } }

AuthResponses ==
  { [ok |-> FALSE, body |-> b] : b \in ErrorBodies } \cup
  { [ok |-> TRUE, body |-> b] : b \in SuccessBodies }

\* a || b || ... : the first operand that is present, else the last.
FirstOf(options, fallback) ==
  IF \E i \in 1..Len(options) : options[i] # None
  THEN Val(options[CHOOSE i \in 1..Len(options) :
                     /\ options[i] # None
                     /\ \A j \in 1..(i - 1) : options[j] = None])
  ELSE fallback

\* signUpUser, after the response arrived.
signUpUser(res) ==
  IF ~res.ok
  THEN [threw |-> TRUE,
        message |-> FirstOf(<<res.body.username, res.body.password, res.body.email,
                              res.body.dob, res.body.detail>>, "Registration failed"),
        access |-> None]
  ELSE [threw |-> FALSE, message |-> "", access |-> None]

\* signInUser, after the response arrived; access is what it hands to
\* setAccessToken.
signInUser(res) ==
  IF ~res.ok
  THEN [threw |-> TRUE, message |-> FirstOf(<<res.body.detail>>, "Login failed"),
        access |-> None]
  ELSE [threw |-> FALSE, message |-> "", access |-> res.body.access]

\* A token cache that takes the access field of any answer.
setAccessTokenAfter_anyAnswer(token, res) == res.body.access

\* What ACCESS_TOKEN is after a sign-in attempt got the answer res:
\* setAccessToken(data.access) is reached only past the throw.
setAccessTokenAfter(token, res) ==
  IF signInUser(res).threw THEN token ELSE signInUser(res).access

\* fetchWithAuth: the Authorization header of the request, the scheme and the
\* token; None when the token is null or undefined and the header is left out.
Authorization(token) ==
  IF token = None THEN None ELSE Some(<<"Bearer", Val(token)>>)

ApiCall(op, ok, token) == [op |-> op, ok |-> ok, token |-> token]

InitAuth ==
  /\ manager = [destroyed |-> FALSE, listener |-> 0]
  /\ pc = [s \in Sessions |-> "idle"]
  /\ unmounted = [s \in Sessions |-> FALSE]
  /\ locationSubscription = [s \in Sessions |-> "null"]
  /\ locations = [s \in Sessions |-> <<>>]
  /\ userLocation = [s \in Sessions |-> DefaultUserLocation]
  /\ nearbyLocation = [s \in Sessions |-> EmptyObject]
  /\ rssi = [s \in Sessions |-> None]
  /\ alertShownRef = [s \in Sessions |-> FALSE]
  /\ steps = [s \in Sessions |-> <<>>]
  /\ blePermission = [s \in Sessions |-> "unasked"]
  /\ trace = <<>>
  /\ firings = 0
  /\ scanObs = NoScanObs
  /\ call = NoCall
  /\ webview = NoWebView
  /\ InitApp

AuthUnchanged ==
  UNCHANGED << manager, pc, unmounted, locationSubscription, mapVars, rssi, steps,
               blePermission, probeVars, otherVars, qr, login, signup >>

\* A sign-in attempt, from the request to the answer.
SignIn ==
  /\ Len(requests) < MaxCalls
  /\ \E res \in AuthResponses :
       /\ ACCESS_TOKEN' = setAccessTokenAfter(ACCESS_TOKEN, res)
       /\ requests' = Append(requests, ApiCall("signin", res.ok, res.body.access))
  /\ AuthUnchanged

\* logout(): setAccessToken(null)
Logout ==
  /\ Len(requests) < MaxCalls
  /\ ACCESS_TOKEN' = None
  /\ requests' = Append(requests, ApiCall("logout", TRUE, None))
  /\ AuthUnchanged

\* Any call that goes through fetchWithAuth: the request is sent with the
\* header the cached token gives.
AuthenticatedRequest ==
  /\ Len(requests) < MaxCalls
  /\ requests' = Append(requests, ApiCall("fetch", TRUE, Authorization(ACCESS_TOKEN)))
  /\ UNCHANGED ACCESS_TOKEN
  /\ AuthUnchanged

NextAuth == SignIn \/ Logout \/ AuthenticatedRequest

SpecAuth == InitAuth /\ [][NextAuth]_vars

\* ------------------------------------------------------------------ login.jsx
Usernames == { "", "ann" }
Passwords == { "", " " }

\* The answers to the sign-in request the login screen is driven with.
LoginResponses ==
  { res \in AuthResponses :
      \/ res.ok /\ res.body.access = Some("t1")
      \/ ~res.ok /\ res.body.username = None /\ res.body.password = None
                 /\ res.body.email = None /\ res.body.dob = None }

\* The answers to GET /userinfo: no answer, a non-2xx answer, the user's
\* record, or a JSON null.
UserInfoResponses ==
  { [kind |-> "network_error"], [kind |-> "response", ok |-> FALSE] } \cup
  { [kind |-> "response", ok |-> TRUE, body |-> b] : b \in {None, Some("ann")} }

\* A guard that only looks at the username.
fieldsMissing_usernameOnly(username, password) == username = ""

\* !username || !password
fieldsMissing(username, password) == username = "" \/ password = ""

\* What the screen did, with the field values the handler was called with.
LoginDid(ev) ==
  [ev |-> ev, username |-> login.username, password |-> login.password]

Presses(did) == Cardinality({ i \in 1..Len(did) : did[i].ev = "press" })

InitLogin ==
  /\ manager = [destroyed |-> FALSE, listener |-> 0]
  /\ pc = [s \in Sessions |-> "idle"]
  /\ unmounted = [s \in Sessions |-> FALSE]
  /\ locationSubscription = [s \in Sessions |-> "null"]
  /\ locations = [s \in Sessions |-> <<>>]
  /\ userLocation = [s \in Sessions |-> DefaultUserLocation]
  /\ nearbyLocation = [s \in Sessions |-> EmptyObject]
  /\ rssi = [s \in Sessions |-> None]
  /\ alertShownRef = [s \in Sessions |-> FALSE]
  /\ steps = [s \in Sessions |-> <<>>]
  /\ blePermission = [s \in Sessions |-> "unasked"]
  /\ trace = <<>>
  /\ firings = 0
  /\ scanObs = NoScanObs
  /\ call = NoCall
  /\ webview = NoWebView
  /\ InitApp

LoginUnchanged ==
  UNCHANGED << manager, pc, unmounted, locationSubscription, mapVars, rssi, steps,
               blePermission, probeVars, otherVars, qr, requests, signup >>

\* handleLogin up to its first await. The button is rendered only while
\* loading is false, and the screen is replaced by the navigation.
LoginPress ==
  /\ login.pc = "idle"
  /\ login.navigation # "home"
  /\ ~login.loading
  /\ Presses(login.did) < MaxAttempts
  /\ \E username \in Usernames, password \in Passwords :
       LET pressed == [ev |-> "press", username |-> username, password |-> password]
       IN IF fieldsMissing(username, password)
          THEN login' = [login EXCEPT !.username = username, !.password = password,
                                      !.snackbar = "Please fill in both fields.",
                                      !.did = Append(@, pressed)]
          ELSE login' = [login EXCEPT !.username = username, !.password = password,
                                      !.loading = TRUE, !.pc = "signInUser",
                                      !.did = @ \o << pressed,
                                                      [pressed EXCEPT !.ev = "signInUser"] >>]
  /\ UNCHANGED ACCESS_TOKEN
  /\ LoginUnchanged

\* catch and finally of handleLogin.
LoginCatch(message, ev) ==
  [login EXCEPT !.snackbar = IF message = "" THEN "Login failed." ELSE message,
                !.loading = FALSE, !.pc = "idle",
                !.did = Append(@, LoginDid(ev))]

\* signInUser settles: it threw, or it stored the token and getUserInfo is
\* called.
LoginSignInSettles ==
  /\ login.pc = "signInUser"
  /\ \/ /\ login' = LoginCatch("Network request failed", "signInUser:failed")
        /\ UNCHANGED ACCESS_TOKEN
     \/ \E res \in LoginResponses :
          /\ ACCESS_TOKEN' = setAccessTokenAfter(ACCESS_TOKEN, res)
          /\ login' = IF signInUser(res).threw
                      THEN LoginCatch(signInUser(res).message, "signInUser:failed")
                      ELSE [login EXCEPT !.pc = "getUserInfo",
                                         !.did = @ \o << LoginDid("signInUser:ok"),
                                                         LoginDid("getUserInfo") >>]
  /\ LoginUnchanged

\* getUserInfo settles: with a truthy record the welcome is shown and the
\* navigation timer is set; otherwise the catch runs. Then finally.
LoginUserInfoSettles ==
  /\ login.pc = "getUserInfo"
  /\ \E res \in UserInfoResponses :
       login' = IF fetchWithAuth(res).threw
                THEN LoginCatch("API error", "getUserInfo:failed")
                ELSE IF fetchWithAuth(res).value = None
                THEN LoginCatch("Failed to retrieve user info", "getUserInfo:empty")
                ELSE [login EXCEPT !.snackbar = "Welcome back",
                                   !.navigation = "scheduled",
                                   !.loading = FALSE, !.pc = "idle",
                                   !.did = @ \o << LoginDid("getUserInfo:ok"),
                                                   LoginDid("setTimeout") >>]
  /\ UNCHANGED ACCESS_TOKEN
  /\ LoginUnchanged

\* The one-second timer: router.replace("/").
LoginTimerFires ==
  /\ login.navigation = "scheduled"
  /\ login' = [login EXCEPT !.navigation = "home"]
  /\ UNCHANGED ACCESS_TOKEN
  /\ LoginUnchanged

NextLogin ==
  LoginPress \/ LoginSignInSettles \/ LoginUserInfoSettles \/ LoginTimerFires

SpecLogin == InitLogin /\ [][NextLogin]_vars

\* ----------------------------------------------------------------- signup.jsx
\* new Date(): the local date the handler runs on.
Today == [year |-> 2026, month |-> 11, day |-> 4]

Date_empty == <<>>
Date_minor == <<"2", "0", "1", "0", "-", "0", "5", "-", "0", "5">>
Date_adult == <<"2", "0", "0", "0", "-", "0", "1", "-", "0", "1">>
Date_eighteenToday == <<"2", "0", "0", "8", "-", "1", "1", "-", "0", "4">>
Date_eighteenTomorrow == <<"2", "0", "0", "8", "-", "1", "1", "-", "0", "5">>
Date_month13 == <<"2", "0", "1", "0", "-", "1", "3", "-", "4", "5">>
Date_yearOnly == <<"2", "0", "1", "0">>
Date_yearMonth == <<"2", "0", "1", "0", "-", "0", "5">>
Date_text == <<"h", "e", "l", "l", "o">>

BirthDates ==
  { Date_empty, Date_minor, Date_adult, Date_eighteenToday, Date_eighteenTomorrow,
    Date_month13, Date_yearOnly, Date_yearMonth, Date_text }

\* /^\d{4}-\d{2}-\d{2}$/.test(str), read left to right: n digits from
\* position i, then a hyphen where one is due, and nothing after the last
\* group.
DigitsAt(str, i, n) == i + n - 1 <= Len(str) /\ DigitRun(str, i) >= n

HyphenAt(str, i) == i <= Len(str) /\ str[i] = "-"

\* A test without the end anchor.
dateRegexTest_noEnd(str) == DigitsAt(str, 1, 4)

dateRegexTest(str) ==
  /\ DigitsAt(str, 1, 4)
  /\ HyphenAt(str, 5)
  /\ DigitsAt(str, 6, 2)
  /\ HyphenAt(str, 8)
  /\ DigitsAt(str, 9, 2)
  /\ Len(str) = 10

DaysInMonth(year, month) ==
  IF month \in {4, 6, 9, 11} THEN 30
  ELSE IF month # 2 THEN 31
  ELSE IF year % 4 = 0 /\ (year % 100 # 0 \/ year % 400 = 0) THEN 29
  ELSE 28

\* new Date(str) for the date forms of the language: YYYY, YYYY-MM and
\* YYYY-MM-DD, a missing month or day being 1; Invalid Date (None) for a
\* month or a day out of range and for text in no date form. The date is
\* read in the zone of Today.
DateOf(year, month, day) ==
  IF month \in 1..12 /\ day \in 1..DaysInMonth(year, month)
  THEN Some([year |-> year, month |-> month, day |-> day])
  ELSE None

NewDate(str) ==
  IF ~DigitsAt(str, 1, 4) THEN None
  ELSE IF Len(str) = 4 THEN DateOf(DigitsValue(str, 1, 4), 1, 1)
  ELSE IF ~(HyphenAt(str, 5) /\ DigitsAt(str, 6, 2)) THEN None
  ELSE IF Len(str) = 7 THEN DateOf(DigitsValue(str, 1, 4), DigitsValue(str, 6, 2), 1)
  ELSE IF ~(HyphenAt(str, 8) /\ DigitsAt(str, 9, 2) /\ Len(str) = 10) THEN None
  ELSE DateOf(DigitsValue(str, 1, 4), DigitsValue(str, 6, 2), DigitsValue(str, 9, 2))

getAge(dobStr) ==
  IF dobStr = <<>> THEN None
  ELSE IF NewDate(dobStr) = None THEN None
  ELSE LET dob == Val(NewDate(dobStr))
           age == Today.year - dob.year
           m == Today.month - dob.month
       IN IF m < 0 \/ (m = 0 /\ Today.day < dob.day)
          THEN Some(age - 1) ELSE Some(age)

\* The forms the button is pressed with: at most one of the three text
\* fields empty.
Forms ==
  { f \in { [username |-> u, email |-> e, password |-> p, birthDate |-> b,
             underageConfirmed |-> c, age |-> getAge(b)] :
               u \in {"", "ann"}, e \in {"", "a@b.c"}, p \in {"", "secret"},
               b \in BirthDates, c \in BOOLEAN } :
      Cardinality({ k \in {"username", "email", "password"} : f[k] = "" }) <= 1 }

\* The answers to the registration and to the sign-in request the screen is
\* driven with.
SignUpResponses ==
  { res \in AuthResponses :
      \/ res.ok /\ res.body.access = Some("t1")
      \/ ~res.ok /\ res.body.password = None /\ res.body.email = None
                 /\ res.body.dob = None /\ res.body.detail = None }

\* The first guard of handleSignUp, and its message.
Validate(form) ==
  IF form.username = "" \/ form.email = "" \/ form.password = ""
     \/ form.birthDate = <<>>
  THEN "Please fill in all required fields."
  ELSE IF ~dateRegexTest(form.birthDate)
  THEN "Please enter date in YYYY-MM-DD format."
  ELSE IF form.age # None /\ Val(form.age) < 18 /\ ~form.underageConfirmed
  THEN "Parental/guardian consent is required."
  ELSE ""

SignUpDid(ev) == [ev |-> ev, form |-> signup.form]

InitSignUp ==
  /\ manager = [destroyed |-> FALSE, listener |-> 0]
  /\ pc = [s \in Sessions |-> "idle"]
  /\ unmounted = [s \in Sessions |-> FALSE]
  /\ locationSubscription = [s \in Sessions |-> "null"]
  /\ locations = [s \in Sessions |-> <<>>]
  /\ userLocation = [s \in Sessions |-> DefaultUserLocation]
  /\ nearbyLocation = [s \in Sessions |-> EmptyObject]
  /\ rssi = [s \in Sessions |-> None]
  /\ alertShownRef = [s \in Sessions |-> FALSE]
  /\ steps = [s \in Sessions |-> <<>>]
  /\ blePermission = [s \in Sessions |-> "unasked"]
  /\ trace = <<>>
  /\ firings = 0
  /\ scanObs = NoScanObs
  /\ call = NoCall
  /\ webview = NoWebView
  /\ InitApp

SignUpUnchanged ==
  UNCHANGED << manager, pc, unmounted, locationSubscription, mapVars, rssi, steps,
               blePermission, probeVars, otherVars, qr, requests, login >>

\* handleSignUp up to its first await; did is the log of this call. The
\* button is rendered only while uploading is false, and the screen is
\* replaced by the navigation.
SignUpPress ==
  /\ signup.pc = "idle"
  /\ ~signup.uploading
  /\ signup.navigation # "home"
  /\ signup.attempts < MaxAttempts
  /\ \E form \in Forms :
       LET pressed == [ev |-> "press", form |-> form]
       IN IF Validate(form) # ""
          THEN signup' = [signup EXCEPT !.form = form, !.attempts = @ + 1,
                                        !.snackbar = Validate(form),
                                        !.did = << pressed >>]
          ELSE signup' = [signup EXCEPT !.form = form, !.attempts = @ + 1,
                                        !.uploading = TRUE, !.pc = "signUpUser",
                                        !.did = << pressed,
                                                   [pressed EXCEPT !.ev = "signUpUser"] >>]
  /\ UNCHANGED ACCESS_TOKEN
  /\ SignUpUnchanged

\* catch and finally of handleSignUp.
SignUpCatch(message, ev) ==
  [signup EXCEPT !.snackbar = IF message = "" THEN "Registration failed." ELSE message,
                 !.uploading = FALSE, !.pc = "idle",
                 !.did = Append(@, SignUpDid(ev))]

\* signUpUser settles: it threw, or signInUser is called.
SignUpSettles ==
  /\ signup.pc = "signUpUser"
  /\ \/ signup' = SignUpCatch("Network request failed", "signUpUser:failed")
     \/ \E res \in SignUpResponses :
          signup' = IF signUpUser(res).threw
                    THEN SignUpCatch(signUpUser(res).message, "signUpUser:failed")
                    ELSE [signup EXCEPT !.pc = "signInUser",
                                        !.did = @ \o << SignUpDid("signUpUser:ok"),
                                                        SignUpDid("signInUser") >>]
  /\ UNCHANGED ACCESS_TOKEN
  /\ SignUpUnchanged

\* signInUser settles: it threw, or the token is stored, the welcome is
\* shown and the router replaces the screen. Then finally.
SignUpSignInSettles ==
  /\ signup.pc = "signInUser"
  /\ \/ /\ signup' = SignUpCatch("Network request failed", "signInUser:failed")
        /\ UNCHANGED ACCESS_TOKEN
     \/ \E res \in LoginResponses :
          /\ ACCESS_TOKEN' = setAccessTokenAfter(ACCESS_TOKEN, res)
          /\ signup' = IF signInUser(res).threw
                       THEN SignUpCatch(signInUser(res).message, "signInUser:failed")
                       ELSE [signup EXCEPT !.snackbar = "Welcome to EcoCache!",
                                           !.navigation = "home",
                                           !.uploading = FALSE, !.pc = "idle",
                                           !.did = @ \o << SignUpDid("signInUser:ok"),
                                                           SignUpDid("replace") >>]
  /\ SignUpUnchanged

NextSignUp == SignUpPress \/ SignUpSettles \/ SignUpSignInSettles

SpecSignUp == InitSignUp /\ [][NextSignUp]_vars

\* ------------------------------------------------- pure functions, applied
\* The location fields a fetched record may carry.
LocationStrings ==
  { Loc_0_0, Loc_200_0, Loc_bad_data, Loc_1_2, Loc_nocomma, Loc_trailing,
    Loc_three, Loc_nolat, Loc_empty }
LocationFields == LocationStrings \cup { NullLocation }

\* Every directory of at most MaxDirectory records; a record's id is its
\* position in the fetched list.
AllDirectories ==
  UNION { { [i \in 1..n |-> Beacon(i, f[i])] : f \in [1..n -> LocationFields] } :
          n \in 0..MaxDirectory }

DirectoryResponses ==
  { [kind |-> "network_error"], [kind |-> "response", ok |-> FALSE] } \cup
  { [kind |-> "response", ok |-> TRUE, body |-> d] : d \in AllDirectories }

RssiInputs == { None } \cup { Some(r) : r \in -110..-40 }
PercentInputs == 0..100

Input(kind, v) == [fn |-> "none", arg |-> [kind |-> kind, v |-> v], out |-> None]

InitPure ==
  /\ manager = [destroyed |-> FALSE, listener |-> 0]
  /\ pc = [s \in Sessions |-> "idle"]
  /\ unmounted = [s \in Sessions |-> FALSE]
  /\ locationSubscription = [s \in Sessions |-> "null"]
  /\ locations = [s \in Sessions |-> <<>>]
  /\ userLocation = [s \in Sessions |-> DefaultUserLocation]
  /\ nearbyLocation = [s \in Sessions |-> EmptyObject]
  /\ rssi = [s \in Sessions |-> None]
  /\ alertShownRef = [s \in Sessions |-> FALSE]
  /\ steps = [s \in Sessions |-> <<>>]
  /\ blePermission = [s \in Sessions |-> "unasked"]
  /\ trace = <<>>
  /\ firings = 0
  /\ scanObs = NoScanObs
  /\ webview = NoWebView
  /\ InitApp
  /\ \/ call \in { Input("response", res) : res \in DirectoryResponses }
     \/ call \in { Input("rssi", r) : r \in RssiInputs }
     \/ call \in { Input("percent", p) : p \in PercentInputs }
     \/ call \in { Input("signup", res) : res \in AuthResponses }
     \/ call \in { Input("signin", res) : res \in AuthResponses }

Apply(kind, fn, out) ==
  /\ call.fn = "none"
  /\ call.arg.kind = kind
  /\ call' = [call EXCEPT !.fn = fn, !.out = out]
  /\ UNCHANGED << manager, pc, unmounted, locationSubscription, mapVars, rssi,
                  steps, blePermission, probeVars, scanObs, webview,
                  appVars >>

ApplyLoadDirectory ==
  Apply("response", "loadDirectory", loadDirectory(call.arg.v))

ApplyGetSignalStrengthPercent ==
  Apply("rssi", "getSignalStrengthPercent", getSignalStrengthPercent(call.arg.v))

ApplyGetSignalLabel ==
  Apply("percent", "getSignalLabel", getSignalLabel(call.arg.v))

ApplySignUpUser == Apply("signup", "signUpUser", signUpUser(call.arg.v))

ApplySignInUser == Apply("signin", "signInUser", signInUser(call.arg.v))

NextPure ==
  \/ ApplyLoadDirectory
  \/ ApplyGetSignalStrengthPercent
  \/ ApplyGetSignalLabel
  \/ ApplySignUpUser
  \/ ApplySignInUser

SpecPure == InitPure /\ [][NextPure]_vars

\* -------------------------------------------------------------------- claims
\* The alerts setup() shows.
AlertSteps == {"alert:Permission denied", "alert:EcoCache Adventure Begins!"}

SetupEnded(s) == pc[s] \in {"returned", "rejected"}

\* C1: once a session's teardown has run, no later step changes that
\* session's userLocation, the beacon its nearbyLocation shows (with the
\* distance written in it) or its stored signal strength.
C1_CallbackAfterTeardownIsNoOp ==
  [][\A s \in Sessions :
       unmounted[s] =>
         /\ userLocation'[s] = userLocation[s]
         /\ nearbyLocation'[s] = nearbyLocation[s]
         /\ NearbyRecord(s)' = NearbyRecord(s)
         /\ rssi'[s] = rssi[s]]_vars

\* C2: when both the setup and the cleanup of a session have finished, its
\* location subscription is not active and the radio scan is not running
\* for it.
C2_NoLeakAfterSetupAndCleanup ==
  \A s \in Sessions :
    (unmounted[s] /\ SetupEnded(s)) =>
      /\ locationSubscription[s] # "active"
      /\ manager.listener # s

\* C7: at most one location subscription is active and at most one scan is
\* running, and each belongs to the session that is mounted now.
C7_ExclusiveStreams ==
  /\ Cardinality({s \in Sessions : locationSubscription[s] = "active"}) <= 1
  /\ \A s \in Sessions : locationSubscription[s] = "active" => Mounted(s)
  /\ manager.listener # 0 => Mounted(manager.listener)

\* C8: a session whose location permission was denied has shown the
\* permission alert and stopped: no directory fetch, no radio scan, no
\* location watch, in any later state.
C8_LocationDeniedStopsSetup ==
  \A s \in Sessions :
    Did(s, "location:denied") =>
      /\ pc[s] = "returned"
      /\ Did(s, "alert:Permission denied")
      /\ ~Did(s, "getBeaconLocations")
      /\ ~Did(s, "startBLEScan")
      /\ ~Did(s, "watchPositionAsync")
      /\ locations[s] = <<>>
      /\ locationSubscription[s] = "null"
      /\ manager.listener # s

C8_Witness ==
  \E s \in Sessions : Did(s, "location:denied") /\ unmounted[s]

C10_FetchFailureCaught ==
  \A s \in Sessions :
    Did(s, "fetch:failed") =>
      /\ pc[s] # "rejected"
      /\ ~Did(s, "unhandledRejection")
      /\ \E i, j \in 1..Len(steps[s]) :
           i < j /\ steps[s][i] = "fetch:failed" /\ steps[s][j] \in AlertSteps
      /\ ~Did(s, "startBLEScan")
      /\ ~Did(s, "watchPositionAsync")

\* C3: the scan prompt appears exactly once per approach: the number of
\* appearances equals the number of fixes whose closest beacon is within
\* 100 m while the fix before was not (or there was none); the distances
\* 150, 90, 95, 150, 90 give two.
InRange(entry) == entry # None /\ Val(entry) <= 100

RisingEdges(tr) ==
  Cardinality({ i \in 1..Len(tr) :
                  InRange(tr[i]) /\ (i = 1 \/ ~InRange(tr[i - 1])) })

SpecSequence == << Some(150), Some(90), Some(95), Some(150), Some(90) >>

C3_PromptOncePerApproach ==
  /\ firings = RisingEdges(trace)
  /\ trace = SpecSequence => firings = 2

C3_Witness ==
  /\ trace = SpecSequence
  /\ firings = 2
  /\ PromptVisible(ProbeSession)

\* C4: after a position fix with a non-empty list, nearbyLocation is a loaded
\* beacon whose distance is the smallest distance from the user to any loaded
\* beacon, and its flag says within range exactly when that distance is at
\* most 100 m.
C4_NearestAndThreshold ==
  \A s \in Sessions :
    /\ (userLocation[s] # DefaultUserLocation /\ locations[s] # <<>>) =>
         nearbyLocation[s].kind = "ref"
    /\ nearbyLocation[s].kind = "ref" =>
         LET rec == locations[s][nearbyLocation[s].index]
             d == Val(rec.distance)
         IN /\ d.metres = getDistance(userLocation[s], rec.coordinates)
            /\ \A i \in 1..Len(locations[s]) :
                 d.metres <= getDistance(userLocation[s], locations[s][i].coordinates)
            /\ d.nearby = (d.metres <= 100)

C4_Witness ==
  /\ \E i \in 1..Len(trace) : trace[i] = Some(101)
  /\ Len(locations[ProbeSession]) >= 2
  /\ nearbyLocation[ProbeSession].kind = "ref"
  /\ Val(Val(NearbyRecord(ProbeSession)).distance) = [metres |-> 100, nearby |-> TRUE]

\* C5: among beacons at the same smallest distance, nearbyLocation is the one
\* that comes first in the loaded list.
C5_TieFirstInListOrder ==
  \A s \in Sessions :
    nearbyLocation[s].kind = "ref" =>
      \A j \in 1..Len(locations[s]) :
        getDistance(userLocation[s], locations[s][j].coordinates)
          = getDistance(userLocation[s],
                        locations[s][nearbyLocation[s].index].coordinates)
        => nearbyLocation[s].index <= j

C5_Witness ==
  \E s \in Sessions :
    /\ nearbyLocation[s].kind = "ref"
    /\ \E j \in 1..Len(locations[s]) :
         /\ j > nearbyLocation[s].index
         /\ getDistance(userLocation[s], locations[s][j].coordinates)
              = Val(Val(NearbyRecord(s)).distance).metres

\* C6: a step that changes the stored signal strength of a session changes
\* nothing of its map state, and a step that changes its userLocation or
\* nearbyLocation changes neither its signal strength nor its beacon list.
C6_DisjointHalves ==
  [][\A s \in Sessions :
       /\ rssi'[s] # rssi[s] =>
            /\ userLocation'[s] = userLocation[s]
            /\ nearbyLocation'[s] = nearbyLocation[s]
            /\ locations'[s] = locations[s]
       /\ (userLocation'[s] # userLocation[s] \/ nearbyLocation'[s] # nearbyLocation[s]) =>
            /\ rssi'[s] = rssi[s]
            /\ locations'[s] = locations[s]]_vars

\* The directory of a loadDirectory call that fetched a list of records
\* whose location fields are all strings.
FetchedStrings ==
  /\ call.fn = "loadDirectory"
  /\ call.arg.v.kind = "response"
  /\ call.arg.v.ok
  /\ \A i \in 1..Len(call.arg.v.body) :
       call.arg.v.body[i].location \in LocationStrings

\* The coordinate pair each location string stands for (tenths), None when
\* it does not give two numbers.
ExpectedCoordinates(loc) ==
  CASE loc = Loc_0_0 -> Some(Coord(0, 0))
    [] loc = Loc_200_0 -> Some(Coord(2000, 0))
    [] loc = Loc_1_2 -> Some(Coord(10, 20))
    [] loc = Loc_trailing -> Some(Coord(15, -20))
    [] loc = Loc_three -> Some(Coord(70, 80))
    [] OTHER -> None

HasCoordinates(b) == ExpectedCoordinates(b.location) # None

\* C11: parsing a fetched directory keeps exactly the records whose location
\* string gives two numbers, in their fetched order, each with the parsed pair
\* as its coordinates and its other fields untouched; the other records are
\* dropped and nothing is thrown.
C11_ParseKeepsParseableInOrder ==
  FetchedStrings =>
    LET kept == SelectSeq(call.arg.v.body, HasCoordinates)
    IN /\ ~call.out.threw
       /\ Len(call.out.value) = Len(kept)
       /\ \A i \in 1..Len(kept) :
            /\ call.out.value[i].beacon_id = kept[i].beacon_id
            /\ call.out.value[i].location = kept[i].location
            /\ call.out.value[i].coordinates =
                 Val(ExpectedCoordinates(kept[i].location))

C11_Witness ==
  /\ FetchedStrings
  /\ call.arg.v.body = <<Beacon(1, Loc_1_2), Beacon(2, Loc_bad_data)>>
  /\ Len(call.out.value) = 1
  /\ call.out.value[1].coordinates = Coord(10, 20)

\* C12: loading the directory throws exactly when the fetch failed: whatever
\* the location field of each fetched record holds, a fetched list is loaded
\* without an error.
C12_LoadFailsOnlyWhenFetchFails ==
  call.fn = "loadDirectory" =>
    (call.out.threw <=> fetchWithAuth(call.arg.v).threw)

\* C17: the signal strength percentage is 0 when the reading is null or
\* undefined; for an integer reading it is the position of the reading between
\* -100 and -50 as a percentage, rounded to the nearest integer, 0 at and
\* below -100 and 100 at and above -50.
C17_PercentInterpolatedRoundedClamped ==
  call.fn = "getSignalStrengthPercent" =>
    IF call.arg.v = None THEN call.out = 0
    ELSE
      LET r == Val(call.arg.v)
      IN /\ call.out \in 0..100
         /\ r <= -100 => call.out = 0
         /\ r >= -50 => call.out = 100
         /\ (-100 <= r /\ r <= -50) =>
              2 * Abs(call.out * 50 - (r + 100) * 100) <= 50
         /\ r = -75 => call.out = 50

C17_Witness ==
  /\ call.fn = "getSignalStrengthPercent"
  /\ \/ call.arg.v = Some(-75) /\ call.out = 50
     \/ call.arg.v = Some(-110) /\ call.out = 0

\* C18: the label of a percentage is Excellent above 80, Good for 61..80,
\* Fair for 41..60, Weak for 21..40 and Very Weak for 0..20.
C18_LabelBands ==
  call.fn = "getSignalLabel" =>
    call.out = CASE call.arg.v \in 81..100 -> "Excellent"
                 [] call.arg.v \in 61..80 -> "Good"
                 [] call.arg.v \in 41..60 -> "Fair"
                 [] call.arg.v \in 21..40 -> "Weak"
                 [] call.arg.v \in 0..20 -> "Very Weak"

C18_Witness ==
  /\ call.fn = "getSignalLabel"
  /\ call.arg.v = 80
  /\ call.out = "Good"

Times(s, what) ==
  Cardinality({ i \in 1..Len(steps[s]) : steps[s][i] = what })

\* What the fetch gave of each record of a list: everything but the distance
\* annotation.
Fetched(list) ==
  [i \in 1..Len(list) |->
     [beacon_id |-> list[i].beacon_id, location |-> list[i].location,
      coordinates |-> list[i].coordinates]]

\* C13: a session asks for the directory at most once, a fetch is in flight
\* only between that one request and its settling, and once the fetched list
\* is stored the session keeps those records, in that order, to its end.
C13_DirectoryFetchedOncePerSession ==
  /\ [](\A s \in Sessions :
          /\ Times(s, "getBeaconLocations") <= 1
          /\ Times(s, "setLocations") <= 1
          /\ pc[s] = "awaitBeaconLocations" =>
               /\ Times(s, "getBeaconLocations") = 1
               /\ ~Did(s, "fetch:ok") /\ ~Did(s, "fetch:failed")
          /\ locations[s] # <<>> => Did(s, "setLocations"))
  /\ [][\A s \in Sessions :
          Did(s, "setLocations") =>
            Fetched(locations'[s]) = Fetched(locations[s])]_vars

C13_Witness ==
  \E s \in Sessions :
    /\ Times(s, "getBeaconLocations") = 1
    /\ Len(locations[s]) = 2
    /\ nearbyLocation[s].kind = "ref"
    /\ unmounted[s]

\* C14: stopBLEScan never raises an error, whatever the scanner's state, and
\* after any number of calls the scanner is in the one stopped state.
C14_StopIdempotentAndSafe ==
  /\ \A i \in 1..Len(scanObs.stopped) : scanObs.stopped[i] # "error"
  /\ scanObs.stopped # <<>> => manager = [destroyed |-> TRUE, listener |-> 0]

\* The names that contain the token.
NamesWithToken == { Some(Name_DECO), Some(Name_Prefixed) }

\* C15: every scan callback calls onMatch exactly once when it carries no
\* error and a device name that contains "DECO3801", repeats included, and
\* never otherwise.
C15_OnMatchOncePerMatchingCallback ==
  \A i \in 1..Len(scanObs.log) :
    Calls(scanObs.log[i].effects, OnMatch) =
      IF ~scanObs.log[i].error /\ scanObs.log[i].device.name \in NamesWithToken
      THEN 1 ELSE 0

C15_Witness ==
  /\ Len(scanObs.log) = 2
  /\ scanObs.log[1] = scanObs.log[2]
  /\ scanObs.log[1].device.name = Some(Name_Prefixed)
  /\ Calls(scanObs.log[1].effects, OnMatch) = 1
  /\ Calls(scanObs.log[2].effects, OnMatch) = 1

\* The vibration the signal strength calls for on Android.
AndroidPattern(r) ==
  IF r = None THEN <<>>
  ELSE IF Val(r) > -75 THEN <<Vibrate(<<0, 600, 200, 600>>)>>
  ELSE IF -80 < Val(r) /\ Val(r) <= -75 THEN <<Vibrate(<<700>>)>>
  ELSE IF -100 < Val(r) /\ Val(r) <= -80 THEN <<Vibrate(<<300>>)>>
  ELSE <<>>

\* C16: in every callback that calls onMatch, onMatch is the last call and
\* any vibration comes before it; on Android the vibration is the one the
\* signal strength calls for: the double pulse above -75, 700 ms in (-80, -75],
\* 300 ms in (-100, -80], none at or below -100 or without a reading.
C16_VibrationBeforeOnMatchByStrength ==
  \A i \in 1..Len(scanObs.log) :
    LET e == scanObs.log[i].effects
    IN Calls(e, OnMatch) > 0 =>
         /\ e[Len(e)] = OnMatch
         /\ \A j \in 1..(Len(e) - 1) : e[j].op = "Vibration.vibrate"
         /\ scanObs.platform = "android" =>
              e = AndroidPattern(scanObs.log[i].device.rssi) \o <<OnMatch>>

C16_Witness ==
  /\ scanObs.platform = "android"
  /\ Len(scanObs.log) = 2
  /\ scanObs.log[1].device.rssi = Some(-75)
  /\ scanObs.log[1].effects = <<Vibrate(<<700>>), OnMatch>>
  /\ scanObs.log[2].device.rssi = Some(-100)
  /\ scanObs.log[2].effects = <<OnMatch>>

\* C19: a displayed result view has called the discover endpoint exactly once
\* when its beacon id is not empty and never when it is empty, however many
\* times it has rendered and whichever responses have arrived.
C19_DiscoverCalledOncePerDisplay ==
  webview.shown =>
    webview.discoverCalls = IF webview.beaconId = <<>> THEN 0 ELSE 1

C19_Witness ==
  /\ webview.shown
  /\ webview.beaconId = Url_plain
  /\ webview.renders >= 4
  /\ webview.beacon # None
  /\ webview.discovered
  /\ webview.discoverCalls = 1

DiscoveryAlerts ==
  SelectSeq(webview.alerts,
            LAMBDA a : a.title \in {"Success!", "Already scanned", "Discovery failed"})

\* C20: a settled discovery has shown exactly one of the three messages:
\* success with the points for a 2xx answer awarding more than 0, already
\* scanned for a 2xx answer awarding no more than 0, failed for any other
\* answer or a network error; discovered is set in the first two cases only,
\* and before the answer no message is shown and discovered is not set.
C20_ThreeOutcomes ==
  IF webview.settled = None
  THEN DiscoveryAlerts = <<>> /\ ~webview.discovered
  ELSE
    LET res == Val(webview.settled)
        awarded == res.body.points_awarded
    IN IF res.kind = "response" /\ res.ok
       THEN /\ webview.discovered
            /\ DiscoveryAlerts =
                 IF awarded \in {Some(5)}
                 THEN <<Alert("Success!", awarded)>>
                 ELSE <<Alert("Already scanned", None)>>
       ELSE /\ ~webview.discovered
            /\ DiscoveryAlerts = <<Alert("Discovery failed", None)>>

C20_Witness ==
  /\ webview.settled # None
  /\ ~Val(webview.settled).ok
  /\ Val(webview.settled).kind = "response"
  /\ Val(webview.settled).body.points_awarded = Some(0)
  /\ DiscoveryAlerts = <<Alert("Discovery failed", None)>>

\* C24: the scan prompt is on the screen exactly when a position fix has been
\* handled and the latest one found the closest loaded beacon within 100 m; it
\* is absent before the first fix and when no beacon was loaded.
C24_PromptIffLatestFixInRange ==
  PromptVisible(ProbeSession) <=>
    (trace # <<>> /\ InRange(trace[Len(trace)]))

C24_Witness ==
  /\ Len(trace) >= 3
  /\ InRange(trace[1])
  /\ ~InRange(trace[2])
  /\ InRange(trace[3])
  /\ Len(locations[ProbeSession]) >= 2
  /\ PromptVisible(ProbeSession)

\* C25: whenever a session starts its radio scan, the manager it starts it on
\* has not been destroyed, and the scan is then running for that session.
C25_EverySessionScansOnLiveManager ==
  [][\A s \in Sessions :
       (~Did(s, "startBLEScan") /\ Did(s, "startBLEScan")') =>
         (~manager.destroyed /\ manager'.listener = s)]_vars

\* Every step b of the session comes after a step a.
\* The position of the first step x of session s, 0 when there is none.
FirstStep(s, x) ==
  LET at == { i \in 1..Len(steps[s]) : steps[s][i] = x }
  IN IF at = {} THEN 0 ELSE CHOOSE i \in at : \A j \in at : i <= j

\* With pa and pb the first positions of two steps: every step of the second
\* kind has a step of the first kind before it.
Before(pa, pb) == pb # 0 => pa # 0 /\ pa < pb

\* C26: in every session the location permission request is the first step;
\* the radio permission request and the directory fetch come after the grant
\* of the location permission; the radio scan starts after the directory was
\* fetched and stored; the location watch starts after the radio scan; and a
\* position fix is handled only with the directory stored and the watch set up.
C26_SetupOrder ==
  \A s \in Sessions :
    LET granted == FirstStep(s, "location:granted")
        radio == FirstStep(s, "requestBLEPermissions")
        directory == FirstStep(s, "getBeaconLocations")
        fetched == FirstStep(s, "fetch:ok")
        stored == FirstStep(s, "setLocations")
        scan == FirstStep(s, "startBLEScan")
        watch == FirstStep(s, "watchPositionAsync")
        subscribed == FirstStep(s, "subscribed")
    IN /\ steps[s] # <<>> => steps[s][1] = "requestForegroundPermissions"
       /\ Before(granted, radio)
       /\ Before(granted, directory)
       /\ Before(radio, directory)
       /\ Before(fetched, scan)
       /\ Before(stored, scan)
       /\ Before(scan, watch)
       /\ Before(watch, subscribed)
       /\ locationSubscription[s] # "null" => subscribed # 0
       /\ userLocation[s] # DefaultUserLocation => stored # 0 /\ subscribed # 0

C26_Witness ==
  \E s \in Sessions :
    /\ Did(s, "subscribed")
    /\ userLocation[s] # DefaultUserLocation
    /\ locations[s] # <<>>
    /\ manager.listener = s

\* C28: a matching scan callback whose signal strength is null leaves the
\* stored reading as it was, and one with a numeric signal strength makes the
\* stored reading that value; any other callback leaves it as it was.
C28_NullReadingRetained ==
  [][Len(scanObs'.log) = Len(scanObs.log) + 1 =>
       LET ev == scanObs'.log[Len(scanObs'.log)]
       IN IF ~ev.error /\ ev.device.name \in NamesWithToken /\ ev.device.rssi # None
          THEN rssi'[1] = ev.device.rssi
          ELSE rssi'[1] = rssi[1]]_vars

C28_Witness ==
  /\ Len(scanObs.log) = 2
  /\ scanObs.log[1].device.name \in NamesWithToken
  /\ scanObs.log[1].device.rssi = Some(-75)
  /\ scanObs.log[2].device.name \in NamesWithToken
  /\ ~scanObs.log[2].error
  /\ scanObs.log[2].device.rssi = None
  /\ rssi[1] = Some(-75)

\* The beacon id of the scanned data that is an http(s) URL with the path
\* /beacon/{id}, None for any other data.
ScannedId(data) ==
  CASE data \in { Qr_https, Qr_http, Qr_query } -> Some(<<"7">>)
    [] OTHER -> None

\* C21: a handled scan of an http(s) URL with the path /beacon/{id} navigates
\* to the result view, which extracts exactly {id}; a handled scan of anything
\* else does not navigate and shows the invalid-QR alert.
C21_BeaconIdRoundTrip ==
  \A i \in 1..Len(qr.log) :
    ~qr.log[i].ignored =>
      IF ScannedId(qr.log[i].data) # None
      THEN /\ qr.log[i].outcome.kind = "push"
           /\ beaconIdOf(useLocalSearchParams(qr.log[i].outcome.pushed))
                = Val(ScannedId(qr.log[i].data))
      ELSE qr.log[i].outcome = ShowAlert("Invalid QR Code")

\* C27: a scan event that arrives while a cooldown timer is pending is
\* ignored: no alert, no navigation.
C27_IgnoredDuringCooldown ==
  \A i \in 1..Len(qr.log) : qr.log[i].cooling => qr.log[i].ignored

\* The message the claim expects for an error body.
ExpectedMessage(b) ==
  IF b.username # None THEN Val(b.username)
  ELSE IF b.password # None THEN Val(b.password)
  ELSE IF b.email # None THEN Val(b.email)
  ELSE IF b.dob # None THEN Val(b.dob)
  ELSE IF b.detail # None THEN Val(b.detail)
  ELSE IF call.fn = "signUpUser" THEN "Registration failed" ELSE "Login failed"

\* C22: for a non-2xx answer the client throws the first present of
\* username[0], password[0], email[0], dob[0], then detail, then its generic
\* failure string; for a 2xx answer it throws nothing.
C22_FirstFieldMessage ==
  call.fn \in {"signUpUser", "signInUser"} =>
    IF call.arg.v.ok THEN ~call.out.threw
    ELSE call.out.threw /\ call.out.message = ExpectedMessage(call.arg.v.body)

\* The token the calls before position i leave cached: that of the latest
\* successful sign-in, none after a logout or before any sign-in.
RECURSIVE CachedBefore(_)
CachedBefore(i) ==
  IF i <= 1 THEN None
  ELSE IF requests[i - 1].op = "logout" THEN None
  ELSE IF requests[i - 1].op = "signin" /\ requests[i - 1].ok
  THEN requests[i - 1].token
  ELSE CachedBefore(i - 1)

\* C23: every authenticated request carries the token returned by the most
\* recent successful sign-in, and no Authorization header when there is none
\* or a logout came after it; the cached token is that token throughout, so a
\* failed sign-in does not change it.
C23_BearerIsLatestSignIn ==
  /\ ACCESS_TOKEN = CachedBefore(Len(requests) + 1)
  /\ \A i \in 1..Len(requests) :
       requests[i].op = "fetch" =>
         requests[i].token = IF CachedBefore(i) = None THEN None
                             ELSE Some(<<"Bearer", Val(CachedBefore(i))>>)

C23_Witness ==
  /\ Len(requests) = 4
  /\ requests[1] = ApiCall("signin", TRUE, Some("t1"))
  /\ requests[2].op = "signin" /\ ~requests[2].ok
  /\ requests[3].op = "fetch" /\ requests[3].token = Some(<<"Bearer", "t1">>)
  /\ requests[4].op = "logout"
  /\ ACCESS_TOKEN = None

\* C29: the login screen sends the sign-in request only with a non-empty
\* username and password; it asks for the user's record only right after the
\* sign-in succeeded; it schedules the navigation only right after that
\* record arrived; and whenever no attempt is running the loading flag is
\* false.
C29_LoginFlow ==
  LET did == login.did IN
  /\ \A i \in 1..Len(did) :
       /\ did[i].ev = "signInUser" =>
            /\ did[i].username # "" /\ did[i].password # ""
            /\ i > 1 /\ did[i - 1] = [did[i] EXCEPT !.ev = "press"]
       /\ did[i].ev = "press" /\ (did[i].username = "" \/ did[i].password = "") =>
            (i = Len(did) \/ did[i + 1].ev = "press")
       /\ did[i].ev = "getUserInfo" => i > 1 /\ did[i - 1].ev = "signInUser:ok"
       /\ did[i].ev = "setTimeout" =>
            /\ i > 3
            /\ did[i - 1].ev = "getUserInfo:ok"
            /\ did[i - 2].ev = "getUserInfo"
            /\ did[i - 3].ev = "signInUser:ok"
  /\ login.pc = "idle" => ~login.loading
  /\ login.navigation # "none" => \E j \in 1..Len(did) : did[j].ev = "setTimeout"

C29_Witness ==
  /\ login.navigation = "home"
  /\ ~login.loading
  /\ \E i \in 1..Len(login.did) : login.did[i].ev = "signInUser:failed"
  /\ \E i \in 1..Len(login.did) :
       login.did[i].ev = "press" /\ login.did[i].password = ""

\* The text is four digits, a hyphen, two digits, a hyphen, two digits.
IsYYYYMMDD(str) ==
  /\ Len(str) = 10
  /\ \A i \in 1..10 : IF i \in {5, 8} THEN str[i] = "-" ELSE str[i] \in Digits

Year(str) == DigitsValue(str, 1, 4)

MonthDay(str) == <<DigitsValue(str, 6, 2), DigitsValue(str, 9, 2)>>

\* The age of a person born on the date str names: the birthdays up to
\* today. Only for a text of the form YYYY-MM-DD that names a day.
Birthdays(str) ==
  Cardinality({ y \in (Year(str) + 1)..Today.year :
                  \/ y < Today.year
                  \/ MonthDay(str)[1] < Today.month
                  \/ MonthDay(str)[1] = Today.month /\ MonthDay(str)[2] <= Today.day })

NamesADay(str) ==
  /\ MonthDay(str)[1] \in 1..12
  /\ MonthDay(str)[2] \in 1..DaysInMonth(Year(str), MonthDay(str)[1])

\* C30: the sign-up screen sends the registration only with username, email,
\* password and birth date non-empty, a birth date of the form YYYY-MM-DD,
\* and not an age below 18 without the consent box ticked; it attempts the
\* sign-in only right after the registration succeeded, and it navigates home
\* only right after that sign-in succeeded.
C30_SignUpFlow ==
  LET did == signup.did IN
  /\ \A i \in 1..Len(did) :
       /\ did[i].ev = "signUpUser" =>
            LET f == did[i].form IN
            /\ f.username # "" /\ f.email # "" /\ f.password # ""
            /\ f.birthDate # <<>>
            /\ IsYYYYMMDD(f.birthDate)
            /\ ~(/\ NamesADay(f.birthDate)
                 /\ Birthdays(f.birthDate) < 18
                 /\ ~f.underageConfirmed)
       /\ did[i].ev = "signInUser" => i > 1 /\ did[i - 1].ev = "signUpUser:ok"
       /\ did[i].ev = "replace" =>
            /\ i > 3
            /\ did[i - 1].ev = "signInUser:ok"
            /\ did[i - 2].ev = "signInUser"
            /\ did[i - 3].ev = "signUpUser:ok"
  /\ signup.navigation = "home" =>
       Len(did) > 0 /\ did[Len(did)].ev = "replace"

\* A seventeen-year-old with the box ticked has registered and is home.
C30_Witness ==
  /\ signup.navigation = "home"
  /\ signup.form.birthDate = Date_eighteenTomorrow
  /\ signup.form.age = Some(17)
  /\ signup.form.underageConfirmed
  /\ signup.attempts > 1

====
